---- MODULE Spec2Model ----
(***************************************************************************)
(* Savoo backend (src/backend/savoo_api.py): the multi-currency accounting *)
(* engine.  The rate table (currency_rates), the rate cache file, the      *)
(* conversion functions, budget notifications, savings goals with their    *)
(* contribution triggers, and the transaction write and read paths.        *)
(*                                                                         *)
(* Money and rates are Python floats in the source; here they are exact    *)
(* rationals <<n, d>> in lowest terms with d > 0.  Timestamps are hours on *)
(* the UTC clock; a calendar day is 24 of them.                            *)
(***************************************************************************)
EXTENDS Integers, Sequences, FiniteSets, TLC

VARIABLES
    now,             \* the UTC clock, in hours (datetime.utcnow())
    tz,              \* the server's local-time offset from UTC, in hours
    currency_rates,  \* table currency_rates: code -> [rate, fetched_at]
    cache_file,      \* the file at CURRENCY_CACHE_PATH
    last_store,      \* history: arguments of the last _store_currency_rates
    last_call,       \* history: what the last ensure_currency_rates call did
    budgets,         \* table budgets: id -> row
    notif_log,       \* the notifications log_budget_notification has written
    last_notify,     \* history: the last maybe_send_budget_notification call
    last_budgets,    \* history: the budgets of the last GET /budgets response
    savings_goals,   \* table savings_goals: id -> row
    contributions,   \* table savings_goal_contributions: id -> row
    last_goal_op,    \* history: the last statement on goals / contributions
    users,           \* table users: id -> [default_currency]
    transactions,    \* table transactions: sequence of rows (id = index)
    recurring,       \* table recurring_transactions: id -> row
    last_txn_op,     \* history: the last transaction write or read
    store_txn,       \* open transactions of _store_currency_rates, per caller
    requests         \* requests in progress, per request: their local values

vars == <<now, tz, currency_rates, cache_file, last_store, last_call,
          budgets, notif_log, last_notify, last_budgets,
          savings_goals, contributions, last_goal_op,
          users, transactions, recurring, last_txn_op,
          store_txn, requests>>

rateVars == <<currency_rates, cache_file, last_store, last_call>>
notifyVars == <<budgets, notif_log, last_notify, last_budgets>>
goalVars == <<savings_goals, contributions, last_goal_op>>
txnVars == <<users, transactions, recurring, last_txn_op>>
procVars == <<store_txn, requests>>

----------------------------------------------------------------------------
(* Bounds of the model *)

\* the clock stops advancing here
MaxTime == 50
\* notifications logged before the model stops logging
MaxNotifications == 3
\* rows the savings_goals table may get
MaxGoals == 2
\* rows the savings_goal_contributions table may get
MaxContributions == 1

(* Program constants *)

\* CURRENCY_CACHE_TTL = timedelta(hours=24)
CURRENCY_CACHE_TTL == 24

BASE_CURRENCY == "PLN"

\* BUDGET_ALERT_THRESHOLD = 0.9
BUDGET_ALERT_THRESHOLD == <<9, 10>>

----------------------------------------------------------------------------
(* Floats as exact rationals *)

Abs(n) == IF n < 0 THEN -n ELSE n

RECURSIVE Gcd(_, _)
Gcd(a, b) == IF b = 0 THEN a ELSE Gcd(b, a % b)

Rat(n, d) ==
    LET s == IF d < 0 THEN -1 ELSE 1
        g == Gcd(Abs(n), Abs(d))
    IN  <<(s * n) \div g, (s * d) \div g>>

R(n) == <<n, 1>>
RMul(a, b) == Rat(a[1] * b[1], a[2] * b[2])
RDiv(a, b) == Rat(a[1] * b[2], a[2] * b[1])
RAdd(a, b) == Rat(a[1] * b[2] + b[1] * a[2], a[2] * b[2])
RSub(a, b) == Rat(a[1] * b[2] - b[1] * a[2], a[2] * b[2])
RLe(a, b) == a[1] * b[2] <= b[1] * a[2]
RLt(a, b) == a[1] * b[2] < b[1] * a[2]
RMax(a, b) == IF RLe(a, b) THEN b ELSE a
RZero == R(0)
ROne == R(1)

----------------------------------------------------------------------------
(* JSON values, codes, dicts *)

\* a JSON value where a number is expected
Num(q) == [k |-> "num", v |-> q]
\* a value float() rejects with ValueError / TypeError ("abc", a list)
BadNum == [k |-> "bad", v |-> RZero]
\* a missing key or JSON null
NoneVal == [k |-> "none", v |-> RZero]

\* a missing or empty code: both are falsy in Python
NoCode == ""

\* str.upper() on the code strings of the model
Upper(c) ==
    CASE c = "pln" -> "PLN"
      [] c = "eur" -> "EUR"
      [] c = "usd" -> "USD"
      [] c = " eur " -> " EUR "
      [] OTHER -> c

\* a Python dict: a sequence of <<key, value>> in insertion order, keys distinct
DictKeys(d) == {d[i][1] : i \in 1..Len(d)}
DictPut(d, key, val) ==
    IF key \in DictKeys(d)
    THEN [i \in 1..Len(d) |-> IF d[i][1] = key THEN <<key, val>> ELSE d[i]]
    ELSE Append(d, <<key, val>>)

\* a date column of a recurrence that is NULL
NoDate == 0 - 1
\* a category_id / budget_id that is NULL
NoId == 0

\* the start_date / end_date text of a budget: an ISO date (a day), text
\* datetime.fromisoformat rejects, or NULL
IsoDate(d) == [k |-> "iso", d |-> d]
JunkDate == [k |-> "junk", d |-> 0]
NullDate == [k |-> "none", d |-> 0]

\* timestamps as stored text
Stamp(t) == [k |-> "iso", t |-> t]
\* text datetime.fromisoformat rejects
JunkStamp == [k |-> "junk", t |-> 0]
\* missing, null or empty
NoStamp == [k |-> "none", t |-> 0]
\* a JSON value that is not a string (a number): datetime.fromisoformat
\* raises TypeError
NonStrStamp == [k |-> "nonstr", t |-> 0]

----------------------------------------------------------------------------
(* RateStore: _store_currency_rates *)

\* the dict `sanitized` after the loop over rates.items(), from entry i on
RECURSIVE SanitizeFrom(_, _, _)
SanitizeFrom(rates, i, acc) ==
    IF i > Len(rates) THEN acc
    ELSE LET code == rates[i][1]
             value == rates[i][2]
         IN  IF code = NoCode \/ value.k # "num"
             THEN SanitizeFrom(rates, i + 1, acc)
             ELSE SanitizeFrom(rates, i + 1, (Upper(code) :> value.v) @@ acc)

\* sanitized = {'PLN': 1.0}, then every entry of rates in order
Sanitized(rates) == SanitizeFrom(rates, 1, BASE_CURRENCY :> ROne)

StoreCurrencyRates_NoDelete(old_table, rates, fetched_at) ==
    LET sanitized == Sanitized(rates)
    IN  [c \in DOMAIN sanitized |-> [rate |-> sanitized[c], fetched_at |-> fetched_at]]
        @@ old_table

\* The table after DELETE FROM currency_rates, one INSERT OR REPLACE per
\* sanitized entry, and the commit: one transaction.
StoreCurrencyRates(old_table, rates, fetched_at) ==
    LET sanitized == Sanitized(rates)
    IN  [c \in DOMAIN sanitized |-> [rate |-> sanitized[c], fetched_at |-> fetched_at]]

----------------------------------------------------------------------------
(* RateCache and RateProvider: ensure_currency_rates *)

AbsentCache == [state |-> "absent", fetched_at |-> NoStamp, rates |-> <<>>, rates_is_dict |-> TRUE]
\* unreadable (open raises OSError), or not valid JSON
CorruptCache == [state |-> "corrupt", fetched_at |-> NoStamp, rates |-> <<>>, rates_is_dict |-> TRUE]
\* bytes that are not UTF-8: json.load raises UnicodeDecodeError, a ValueError
\* that is neither OSError nor JSONDecodeError
UndecodableCache ==
    [state |-> "undecodable", fetched_at |-> NoStamp, rates |-> <<>>, rates_is_dict |-> TRUE]
JsonCache(fetched_at, rates) ==
    [state |-> "json", fetched_at |-> fetched_at, rates |-> rates, rates_is_dict |-> TRUE]

\* one element of the "rates" list of the response
Item(code, mid) == [obj |-> TRUE, code |-> code, mid |-> mid]
\* an element that is not a JSON object (a string, a number)
NotObj == [obj |-> FALSE, code |-> NoCode, mid |-> NoneVal]

\* extracted_rates after the loop over raw_rates, from entry i on
RECURSIVE ExtractFrom(_, _, _)
ExtractFrom(items, i, acc) ==
    IF i > Len(items) THEN acc
    ELSE LET code == items[i].code
             value == items[i].mid
         IN  IF code # NoCode /\ value.k = "num"
             THEN ExtractFrom(items, i + 1, DictPut(acc, Upper(code), value))
             ELSE ExtractFrom(items, i + 1, acc)

ExtractedRates(items) == ExtractFrom(items, 1, <<>>)

NoCall == [op |-> "none", force |-> FALSE, fetch |-> "skipped", raised |-> FALSE, stored |-> FALSE]
Call(force, fetch, raised, stored) ==
    [op |-> "ensure", force |-> force, fetch |-> fetch, raised |-> raised, stored |-> stored]

NoStore == [done |-> FALSE, rates |-> <<>>, fetched_at |-> NoStamp]

CacheIsFresh_Strict(ts, t) == ts.k = "iso" /\ t - ts.t < CURRENCY_CACHE_TTL

\* cache_timestamp and now - cache_timestamp <= CURRENCY_CACHE_TTL
CacheIsFresh(ts, t) == ts.k = "iso" /\ t - ts.t <= CURRENCY_CACHE_TTL

\* env = [table, cache, store]: the rate table, the cache file and the
\* arguments of the last _store_currency_rates call.
EnvStored(env, rates, fetched_at) ==
    [table |-> StoreCurrencyRates(env.table, rates, fetched_at),
     cache |-> env.cache,
     store |-> [done |-> TRUE, rates |-> rates, fetched_at |-> fetched_at]]

\* ensure_currency_rates storing an empty snapshot when the fetch fails and
\* there is no cache
EnsureCurrencyRates_StoreOnFailure(env, t, force, out, cw) ==
    LET cache == env.cache
        \* cache_data is loaded and truthy
        have == ~force /\ cache.state = "json"
        ts == cache.fetched_at
        fresh == have /\ CacheIsFresh(ts, t)
    IN  IF ~force /\ cache.state = "undecodable"
        THEN [env |-> env, call |-> Call(force, "skipped", TRUE, FALSE)]
        ELSE IF have /\ ts.k = "nonstr"
        THEN [env |-> env, call |-> Call(force, "skipped", TRUE, FALSE)]
        ELSE IF fresh
        THEN IF cache.rates_is_dict
             THEN [env |-> EnvStored(env, cache.rates, ts),
                   call |-> Call(force, "skipped", FALSE, TRUE)]
             ELSE [env |-> env, call |-> Call(force, "skipped", TRUE, FALSE)]
        ELSE IF out.kind # "payload"
        THEN IF have
             THEN IF cache.rates_is_dict
                  THEN [env |-> EnvStored(env, cache.rates,
                                          IF ts.k = "none" THEN Stamp(t) ELSE ts),
                        call |-> Call(force, "failed", FALSE, TRUE)]
                  ELSE [env |-> env, call |-> Call(force, "failed", TRUE, FALSE)]
             ELSE [env |-> EnvStored(env, <<>>, Stamp(t)),
                   call |-> Call(force, "failed", FALSE, FALSE)]
        ELSE IF \E i \in 1..Len(out.items) : ~out.items[i].obj
        THEN [env |-> env, call |-> Call(force, "ok", TRUE, FALSE)]
        ELSE LET extracted == ExtractedRates(out.items)
                 stored == EnvStored(env, extracted, Stamp(t))
             IN  [env |-> [stored EXCEPT !.cache =
                              IF cw = "ok" THEN JsonCache(Stamp(t), extracted)
                              ELSE env.cache],
                  call |-> Call(force, "ok", FALSE, TRUE)]

\* ensure_currency_rates(force_refresh) at time t, the rate source answering
\* `out` and the cache-file write ending `cw`.  The result is the new env and
\* what the call did.
EnsureCurrencyRates(env, t, force, out, cw) ==
    LET cache == env.cache
        \* cache_data is loaded and truthy
        have == ~force /\ cache.state = "json"
        ts == cache.fetched_at
        fresh == have /\ CacheIsFresh(ts, t)
    IN  IF ~force /\ cache.state = "undecodable"
        THEN [env |-> env, call |-> Call(force, "skipped", TRUE, FALSE)]
        ELSE IF have /\ ts.k = "nonstr"
        THEN [env |-> env, call |-> Call(force, "skipped", TRUE, FALSE)]
        ELSE IF fresh
        THEN IF cache.rates_is_dict
             THEN [env |-> EnvStored(env, cache.rates, ts),
                   call |-> Call(force, "skipped", FALSE, TRUE)]
             ELSE [env |-> env, call |-> Call(force, "skipped", TRUE, FALSE)]
        ELSE IF out.kind # "payload"
        THEN IF have
             THEN IF cache.rates_is_dict
                  THEN [env |-> EnvStored(env, cache.rates,
                                          IF ts.k = "none" THEN Stamp(t) ELSE ts),
                        call |-> Call(force, "failed", FALSE, TRUE)]
                  ELSE [env |-> env, call |-> Call(force, "failed", TRUE, FALSE)]
             ELSE [env |-> env, call |-> Call(force, "failed", FALSE, FALSE)]
        ELSE IF \E i \in 1..Len(out.items) : ~out.items[i].obj
        THEN [env |-> env, call |-> Call(force, "ok", TRUE, FALSE)]
        ELSE LET extracted == ExtractedRates(out.items)
                 stored == EnvStored(env, extracted, Stamp(t))
             IN  [env |-> [stored EXCEPT !.cache =
                              IF cw = "ok" THEN JsonCache(Stamp(t), extracted)
                              ELSE env.cache],
                  call |-> Call(force, "ok", FALSE, TRUE)]

----------------------------------------------------------------------------
(* The environment of the rate subsystem *)

\* the "rates" lists the rate source may return: empty, well-formed, a code
\* in lower case, the base currency itself, a non-numeric mid, a missing
\* code, the same code twice, an element that is not an object
Payloads ==
    { <<>>,
      <<Item("EUR", Num(Rat(43, 10)))>>,
      <<Item("EUR", Num(Rat(43, 10))), Item("usd", Num(R(4)))>>,
      <<Item("pln", Num(R(2))), Item("EUR", Num(R(5)))>>,
      <<Item("EUR", Num(Rat(43, 10))), Item("USD", BadNum)>>,
      <<Item(NoCode, Num(R(3))), Item("usd", Num(R(4)))>>,
      <<Item("EUR", Num(Rat(43, 10))), Item("EUR", Num(R(5)))>>,
      <<Item("EUR", Num(R(5))), NotObj>> }

\* what requests.get / raise_for_status / response.json / payload[0]['rates']
\* can end in
FetchOutcomes ==
    {[kind |-> k, items |-> <<>>] : k \in {"timeout", "http_error", "malformed"}}
    \cup {[kind |-> "payload", items |-> s] : s \in Payloads}

CacheWrites == {"ok", "oserror"}

\* hours the clock advances in one step
TickSteps == {CURRENCY_CACHE_TTL, CURRENCY_CACHE_TTL + 1}

\* a snapshot may be as old as the process start, or older than the TTL
InitStamps == {Stamp(0), Stamp(0 - CURRENCY_CACHE_TTL - 1)}

InitCaches ==
    { AbsentCache, CorruptCache, UndecodableCache,
      JsonCache(JunkStamp, <<<<"EUR", Num(R(4))>>>>),
      JsonCache(NonStrStamp, <<<<"EUR", Num(R(4))>>>>),
      JsonCache(NoStamp, <<<<"EUR", Num(R(4))>>>>),
      [JsonCache(Stamp(0), <<>>) EXCEPT !.rates_is_dict = FALSE] }
    \cup { JsonCache(s, <<<<"PLN", Num(R(3))>>, <<"eur", Num(R(4))>>, <<"GBP", BadNum>>>>)
           : s \in InitStamps }
    \cup { JsonCache(s, <<<<"USD", Num(R(4))>>>>) : s \in InitStamps }

EmptyTable == <<>>

InitTables ==
    { EmptyTable,
      StoreCurrencyRates(EmptyTable, <<<<"CHF", Num(R(4))>>>>, Stamp(0 - CURRENCY_CACHE_TTL - 1)) }

Env == [table |-> currency_rates, cache |-> cache_file, store |-> last_store]

SetEnv(e) ==
    /\ currency_rates' = e.table
    /\ cache_file' = e.cache
    /\ last_store' = e.store

----------------------------------------------------------------------------
(* Actions of the rate subsystem *)

Tick ==
    /\ \E d \in TickSteps : now + d <= MaxTime /\ now' = now + d
    /\ last_call' = NoCall
    /\ UNCHANGED <<tz, currency_rates, cache_file, last_store>>
    /\ UNCHANGED <<procVars, notifyVars, goalVars, txnVars>>

\* GET /currencies?refresh=...: ensure_currency_rates, then a read of the table
ListCurrencies ==
    /\ \E refresh \in BOOLEAN, out \in FetchOutcomes, cw \in CacheWrites :
          LET r == EnsureCurrencyRates(Env, now, refresh, out, cw)
          IN  SetEnv(r.env) /\ last_call' = r.call
    /\ UNCHANGED <<procVars, now, tz, notifyVars, goalVars, txnVars>>

InitOther ==
    /\ tz = 0
    /\ budgets = <<>>
    /\ notif_log = <<>>
    /\ last_notify = <<>>
    /\ last_budgets = <<>>
    /\ savings_goals = <<>>
    /\ contributions = <<>>
    /\ last_goal_op = <<>>
    /\ users = <<>>
    /\ transactions = <<>>
    /\ recurring = <<>>
    /\ last_txn_op = <<>>
    /\ store_txn = <<>>
    /\ requests = <<>>

InitRates ==
    /\ now = 0
    /\ currency_rates \in InitTables
    /\ cache_file \in InitCaches
    /\ last_store = NoStore
    /\ last_call = NoCall
    /\ InitOther

NextRates == Tick \/ ListCurrencies

SpecRates == InitRates /\ [][NextRates]_vars

----------------------------------------------------------------------------
(* ConversionService: get_exchange_rate, convert_amount and their wrappers *)

\* One request's view of the rate source: every ensure_currency_rates call of
\* the request gets the answer o.out and the cache-file write ends o.cw.

\* The result of a call is bound once, as the single element of a set, and
\* then used: [val, env, raised] is the value returned, the env afterwards,
\* and whether ensure_currency_rates raised; `call` is what the
\* ensure_currency_rates call of a lookup did (NoCall when the lookup returns
\* before it), `calls` the calls of a conversion in order.

\* get_exchange_rate(currency)
GetExchangeRate(env, t, currency, o) ==
    IF currency = NoCode \/ Upper(currency) = "PLN"
    THEN [val |-> ROne, env |-> env, raised |-> FALSE, call |-> NoCall]
    ELSE CHOOSE res \in
            { [val |-> IF ~r.call.raised /\ Upper(currency) \in DOMAIN r.env.table
                       THEN r.env.table[Upper(currency)].rate
                       ELSE ROne,
               env |-> r.env,
               raised |-> r.call.raised,
               call |-> r.call]
              : r \in {EnsureCurrencyRates(env, t, FALSE, o.out, o.cw)} } : TRUE

\* the calls of ensure_currency_rates two lookups made
LookupCalls(s, g) ==
    (IF s.call.op = "ensure" THEN <<s.call>> ELSE <<>>)
    \o (IF ~s.raised /\ g.call.op = "ensure" THEN <<g.call>> ELSE <<>>)

\* convert_amount with the target rate left out
ConvertAmount_NoDivide(env, t, amount, source_currency, target_currency, o) ==
    LET source == Upper(IF source_currency = NoCode THEN "PLN" ELSE source_currency)
        target == Upper(IF target_currency = NoCode THEN "PLN" ELSE target_currency)
    IN  IF source = target
        THEN [val |-> amount, env |-> env, raised |-> FALSE, calls |-> <<>>,
              divided |-> FALSE]
        ELSE CHOOSE res \in UNION
                { { [val |-> RMul(amount, s.val),
                     env |-> g.env,
                     raised |-> s.raised \/ g.raised,
                     calls |-> LookupCalls(s, g),
                     divided |-> FALSE]
                    : g \in {IF s.raised THEN s
                             ELSE GetExchangeRate(s.env, t, target, o)} }
                  : s \in {GetExchangeRate(env, t, source, o)} } : TRUE

\* convert_amount with the source rate left out when the target is PLN
ConvertAmount_BaseUnscaled(env, t, amount, source_currency, target_currency, o) ==
    LET source == Upper(IF source_currency = NoCode THEN "PLN" ELSE source_currency)
        target == Upper(IF target_currency = NoCode THEN "PLN" ELSE target_currency)
    IN  IF source = target
        THEN [val |-> amount, env |-> env, raised |-> FALSE, calls |-> <<>>,
              divided |-> FALSE]
        ELSE CHOOSE res \in UNION
                { { [val |-> IF g.val = RZero THEN RMul(amount, s.val)
                             ELSE IF target = "PLN" THEN amount
                             ELSE RDiv(RMul(amount, s.val), g.val),
                     env |-> g.env,
                     raised |-> s.raised \/ g.raised,
                     calls |-> LookupCalls(s, g),
                     divided |-> g.val # RZero /\ target # "PLN"]
                    : g \in {IF s.raised THEN s
                             ELSE GetExchangeRate(s.env, t, target, o)} }
                  : s \in {GetExchangeRate(env, t, source, o)} } : TRUE

\* convert_amount without the test of target_rate == 0
ConvertAmount_NoZeroGuard(env, t, amount, source_currency, target_currency, o) ==
    LET source == Upper(IF source_currency = NoCode THEN "PLN" ELSE source_currency)
        target == Upper(IF target_currency = NoCode THEN "PLN" ELSE target_currency)
    IN  IF source = target
        THEN [val |-> amount, env |-> env, raised |-> FALSE, calls |-> <<>>,
              divided |-> FALSE]
        ELSE CHOOSE res \in UNION
                { { [val |-> IF target = "PLN" THEN RMul(amount, s.val)
                             ELSE IF g.val = RZero THEN RZero
                             ELSE RDiv(RMul(amount, s.val), g.val),
                     env |-> g.env,
                     raised |-> s.raised \/ g.raised,
                     calls |-> LookupCalls(s, g),
                     divided |-> target # "PLN"]
                    : g \in {IF s.raised THEN s
                             ELSE GetExchangeRate(s.env, t, target, o)} }
                  : s \in {GetExchangeRate(env, t, source, o)} } : TRUE

\* convert_amount(amount, source_currency, target_currency), amount not None
ConvertAmount(env, t, amount, source_currency, target_currency, o) ==
    LET source == Upper(IF source_currency = NoCode THEN "PLN" ELSE source_currency)
        target == Upper(IF target_currency = NoCode THEN "PLN" ELSE target_currency)
    IN  IF source = target
        THEN [val |-> amount, env |-> env, raised |-> FALSE, calls |-> <<>>,
              divided |-> FALSE]
        ELSE CHOOSE res \in UNION
                { { [val |-> IF g.val = RZero THEN RMul(amount, s.val)
                             ELSE IF target = "PLN" THEN RMul(amount, s.val)
                             ELSE RDiv(RMul(amount, s.val), g.val),
                     env |-> g.env,
                     raised |-> s.raised \/ g.raised,
                     calls |-> LookupCalls(s, g),
                     divided |-> g.val # RZero /\ target # "PLN"]
                    : g \in {IF s.raised THEN s
                             ELSE GetExchangeRate(s.env, t, target, o)} }
                  : s \in {GetExchangeRate(env, t, source, o)} } : TRUE

\* str.strip() on the code strings of the model
Strip(c) ==
    CASE c = " eur " -> "eur"
      [] c = " EUR " -> "EUR"
      [] OTHER -> c

\* normalize_currency(value, fallback)
NormalizeCurrency(value, fallback) ==
    IF value = NoCode THEN fallback
    ELSE IF Upper(Strip(value)) = NoCode THEN fallback ELSE Upper(Strip(value))

\* convert_to_base(amount, currency)
ConvertToBase(env, t, amount, currency, o) ==
    ConvertAmount(env, t, amount, NormalizeCurrency(currency, BASE_CURRENCY), BASE_CURRENCY, o)

\* convert_from_base(amount, currency)
ConvertFromBase(env, t, amount, currency, o) ==
    ConvertAmount(env, t, amount, BASE_CURRENCY, NormalizeCurrency(currency, BASE_CURRENCY), o)

\* the answers of the rate source the request handlers are run against
HandlerFetches ==
    { [out |-> [kind |-> "timeout", items |-> <<>>], cw |-> "ok"],
      [out |-> [kind |-> "payload",
                items |-> <<Item("EUR", Num(R(5))), Item("usd", Num(R(4)))>>],
       cw |-> "ok"] }

----------------------------------------------------------------------------
(* Budget notifications: maybe_send_budget_notification *)

\* last_notified[:10] of a stored datetime.utcnow().isoformat(): its UTC date
StampDate(stamp) == stamp.t \div 24

\* date.today(): the date on the server's local clock
Today(t, offset) == (t + offset) \div 24

\* maybe_send_budget_notification with utilization > threshold in place of >=
MaybeSendBudgetNotification_StrictThreshold(budget, spent, t, offset) ==
    LET limit_amount == budget.limit_amount
        over_limit == RLt(limit_amount, spent)
        last_notified == budget.last_notified_at
    IN  IF RLe(limit_amount, RZero)
        THEN [returned |-> FALSE, budget |-> budget]
        ELSE IF ~(RLt(BUDGET_ALERT_THRESHOLD, RDiv(spent, limit_amount)) \/ over_limit)
        THEN [returned |-> FALSE, budget |-> budget]
        ELSE IF last_notified.k = "iso" /\ StampDate(last_notified) = Today(t, offset)
        THEN [returned |-> FALSE, budget |-> budget]
        ELSE [returned |-> TRUE,
              budget |-> [budget EXCEPT !.last_notified_at = Stamp(t)]]

\* maybe_send_budget_notification(conn, cursor, budget) at UTC time t on a
\* server whose local clock is `offset` hours ahead of UTC: whether it logged
\* a notification (and returned True), and the budget row afterwards.
MaybeSendBudgetNotification(budget, spent, t, offset) ==
    LET limit_amount == budget.limit_amount
        over_limit == RLt(limit_amount, spent)
        last_notified == budget.last_notified_at
    IN  IF RLe(limit_amount, RZero)
        THEN [returned |-> FALSE, budget |-> budget]
        ELSE IF ~(RLe(BUDGET_ALERT_THRESHOLD, RDiv(spent, limit_amount)) \/ over_limit)
        THEN [returned |-> FALSE, budget |-> budget]
        ELSE IF last_notified.k = "iso" /\ StampDate(last_notified) = Today(t, offset)
        THEN [returned |-> FALSE, budget |-> budget]
        ELSE [returned |-> TRUE,
              budget |-> [budget EXCEPT !.last_notified_at = Stamp(t)]]

\* a budgets row
BudgetRow(limit_amount, category_id, start_date, end_date) ==
    [limit_amount |-> limit_amount, last_notified_at |-> NoStamp,
     category_id |-> category_id, start_date |-> start_date, end_date |-> end_date]

\* a budget without a category and without dates of its own
Budget(limit_amount) == BudgetRow(limit_amount, NoId, NullDate, NullDate)

\* spent_amount values a GET /budgets may compute
Spents == {R(0), R(899), R(900), R(950), R(1001)}

\* local-time offsets of the server: west of UTC, UTC, east of UTC
TzOffsets == {0 - 5, 0, 2}

\* hour of the day at which the model starts
StartHours == {0, 11, 23}

NoNotify == [op |-> "none", id |-> 0, spent |-> RZero, returned |-> FALSE,
             before |-> NoStamp]

\* One call of maybe_send_budget_notification from GET /budgets: the budget
\* row is the persisted one, spent_amount is what the request computed.
NotifyCall ==
    /\ Len(notif_log) < MaxNotifications
    /\ \E id \in DOMAIN budgets, spent \in Spents :
          LET r == MaybeSendBudgetNotification(budgets[id], spent, now, tz)
          IN  /\ budgets' = [budgets EXCEPT ![id] = r.budget]
              /\ notif_log' = IF r.returned
                              THEN Append(notif_log, [id |-> id, day |-> Today(now, tz)])
                              ELSE notif_log
              /\ last_notify' = [op |-> "notify", id |-> id, spent |-> spent,
                                 returned |-> r.returned,
                                 before |-> budgets[id].last_notified_at]
    /\ UNCHANGED <<procVars, now, tz, rateVars, last_budgets, goalVars, txnVars>>

TickNotify ==
    /\ \E d \in TickSteps : now + d <= MaxTime /\ now' = now + d
    /\ last_notify' = NoNotify
    /\ UNCHANGED <<procVars, tz, rateVars, budgets, notif_log, last_budgets, goalVars, txnVars>>

InitNotify ==
    /\ now \in StartHours
    /\ tz \in TzOffsets
    /\ currency_rates = EmptyTable
    /\ cache_file = AbsentCache
    /\ last_store = NoStore
    /\ last_call = NoCall
    /\ budgets = <<Budget(R(1000)), Budget(R(200)), Budget(R(0))>>
    /\ notif_log = <<>>
    /\ last_notify = NoNotify
    /\ last_budgets = <<>>
    /\ savings_goals = <<>>
    /\ contributions = <<>>
    /\ last_goal_op = <<>>
    /\ users = <<>>
    /\ transactions = <<>>
    /\ recurring = <<>>
    /\ last_txn_op = <<>>
    /\ store_txn = <<>>
    /\ requests = <<>>

NextNotify == TickNotify \/ NotifyCall

SpecNotify == InitNotify /\ [][NextNotify]_vars

----------------------------------------------------------------------------
(* Savings goals and the contribution triggers *)

\* Tables with AUTOINCREMENT ids are sequences: the id is the index, and a
\* deleted row leaves a blank row with exists = FALSE (ids are never reused).

DeletedGoal == [exists |-> FALSE, target_amount |-> RZero, current_amount |-> RZero]
DeletedContribution == [exists |-> FALSE, goal_id |-> 0, amount |-> RZero]

Goal(target_amount, current_amount) ==
    [exists |-> TRUE, target_amount |-> target_amount, current_amount |-> current_amount]

Contribution(goal_id, amount) == [exists |-> TRUE, goal_id |-> goal_id, amount |-> amount]

\* UPDATE savings_goals SET current_amount = <value> WHERE id = goal_id
SetCurrent(goals, goal_id, value) ==
    IF goal_id \in DOMAIN goals /\ goals[goal_id].exists
    THEN [goals EXCEPT ![goal_id].current_amount = value]
    ELSE goals

\* trg_savings_goal_contributions_insert
TrgInsert(goals, new) ==
    IF new.goal_id \in DOMAIN goals
    THEN SetCurrent(goals, new.goal_id,
                    RAdd(goals[new.goal_id].current_amount, new.amount))
    ELSE goals

\* trg_savings_goal_contributions_update
TrgUpdate(goals, old, new) ==
    IF new.goal_id \in DOMAIN goals
    THEN SetCurrent(goals, new.goal_id,
                    RAdd(RSub(goals[new.goal_id].current_amount, old.amount), new.amount))
    ELSE goals

TrgDelete_NoFloor(goals, old) ==
    IF old.goal_id \in DOMAIN goals
    THEN SetCurrent(goals, old.goal_id,
                    RSub(goals[old.goal_id].current_amount, old.amount))
    ELSE goals

\* trg_savings_goal_contributions_delete
TrgDelete(goals, old) ==
    IF old.goal_id \in DOMAIN goals
    THEN SetCurrent(goals, old.goal_id,
                    RMax(RSub(goals[old.goal_id].current_amount, old.amount), RZero))
    ELSE goals

\* amounts and currencies of the requests
GoalTargets == {R(100)}
GoalAmounts == {R(0), R(50)}
\* amounts of POST .../contributions requests (0 is refused)
ContributionAmounts == {R(0), R(50)}
\* amounts a contribution row is updated to
UpdatedAmounts == {R(100)}
\* the "currency" field of a request: absent, or given
RequestCurrencies == {NoCode, " eur "}

\* The snapshot in the cache file stays fresh while the goal requests run, so
\* the rate source is not asked; were it asked, it would time out.
GoalFetches == {[out |-> [kind |-> "timeout", items |-> <<>>], cw |-> "ok"]}

\* op: the statement; id: the goal or contribution row it named; floored:
\* the delete trigger's MAX(..., 0) took the 0
GoalOp(op, id, floored) == [op |-> op, id |-> id, floored |-> floored]
NoGoalOp == GoalOp("none", 0, FALSE)

\* current_amount of a goal, 0 for a row that does not exist
CurrentOf(goals, goal_id) ==
    IF goal_id \in DOMAIN goals /\ goals[goal_id].exists
    THEN goals[goal_id].current_amount
    ELSE RZero

UserCurrency == IF 1 \in DOMAIN users THEN users[1].default_currency ELSE NoCode

\* POST /savings-goals: target_amount and the optional current_amount are
\* converted to the base currency and inserted
CreateGoal ==
    /\ Len(savings_goals) < MaxGoals
    /\ \E target \in GoalTargets, current \in GoalAmounts,
          currency \in RequestCurrencies, o \in GoalFetches :
          LET input_currency ==
                  NormalizeCurrency(IF currency = NoCode THEN UserCurrency ELSE currency,
                                    BASE_CURRENCY)
          IN
          \E target_pln \in {ConvertToBase(Env, now, target, input_currency, o)} :
          \E current_pln \in
                {IF target_pln.raised THEN target_pln
                 ELSE ConvertToBase(target_pln.env, now, current, input_currency, o)} :
              /\ SetEnv(current_pln.env)
              /\ IF current_pln.raised
                 THEN UNCHANGED <<savings_goals>> /\ last_goal_op' = NoGoalOp
                 ELSE /\ savings_goals' =
                            Append(savings_goals, Goal(target_pln.val, current_pln.val))
                      /\ last_goal_op' = GoalOp("goal_insert", Len(savings_goals) + 1, FALSE)
    /\ last_call' = NoCall
    /\ UNCHANGED <<procVars, now, tz, contributions, notifyVars, txnVars>>

\* PUT /savings-goals/<id> with current_amount: the converted value replaces
\* the stored one
UpdateGoal ==
    /\ \E goal_id \in DOMAIN savings_goals, current \in GoalAmounts,
          currency \in RequestCurrencies, o \in GoalFetches :
          \E current_pln \in {ConvertToBase(Env, now, current,
                                             NormalizeCurrency(currency, BASE_CURRENCY), o)} :
              /\ savings_goals[goal_id].exists
              /\ SetEnv(current_pln.env)
              /\ IF current_pln.raised
                 THEN UNCHANGED <<savings_goals>> /\ last_goal_op' = NoGoalOp
                 ELSE /\ savings_goals' = SetCurrent(savings_goals, goal_id, current_pln.val)
                      /\ last_goal_op' = GoalOp("goal_update", goal_id, FALSE)
    /\ last_call' = NoCall
    /\ UNCHANGED <<procVars, now, tz, contributions, notifyVars, txnVars>>

\* DELETE /savings-goals/<id>: the connection never enables foreign_keys, so
\* the goal's contribution rows stay
DeleteGoal ==
    /\ \E goal_id \in DOMAIN savings_goals :
          /\ savings_goals[goal_id].exists
          /\ savings_goals' = [savings_goals EXCEPT ![goal_id] = DeletedGoal]
          /\ last_goal_op' = GoalOp("goal_delete", goal_id, FALSE)
    /\ last_call' = NoCall
    /\ UNCHANGED <<procVars, now, tz, currency_rates, cache_file, last_store, contributions,
                   notifyVars, txnVars>>

\* POST /savings-goals/<id>/contributions: a positive amount is converted to
\* the base currency and inserted; the insert trigger fires
InsertContribution ==
    /\ Len(contributions) < MaxContributions
    /\ \E goal_id \in DOMAIN savings_goals, amount \in ContributionAmounts,
          currency \in RequestCurrencies, o \in GoalFetches :
          LET contribution_currency ==
                  NormalizeCurrency(IF currency = NoCode
                                    THEN NormalizeCurrency(UserCurrency, BASE_CURRENCY)
                                    ELSE Upper(Strip(currency)), BASE_CURRENCY)
          IN
          \E converted \in {ConvertToBase(Env, now, amount, contribution_currency, o)} :
          \E new \in {Contribution(goal_id, converted.val)} :
              /\ RLt(RZero, amount)
              /\ savings_goals[goal_id].exists
              /\ SetEnv(converted.env)
              /\ IF converted.raised
                 THEN UNCHANGED <<savings_goals, contributions>> /\ last_goal_op' = NoGoalOp
                 ELSE /\ contributions' = Append(contributions, new)
                      /\ savings_goals' = TrgInsert(savings_goals, new)
                      /\ last_goal_op' = GoalOp("contribution_insert", Len(contributions) + 1, FALSE)
    /\ last_call' = NoCall
    /\ UNCHANGED <<procVars, now, tz, notifyVars, txnVars>>

\* UPDATE savings_goal_contributions SET amount = ? WHERE id = ?: the update
\* trigger fires
UpdateContribution ==
    /\ \E id \in DOMAIN contributions, amount \in UpdatedAmounts :
          LET old == contributions[id]
              new == [old EXCEPT !.amount = amount]
          IN  /\ old.exists
              /\ contributions' = [contributions EXCEPT ![id] = new]
              /\ savings_goals' = TrgUpdate(savings_goals, old, new)
              /\ last_goal_op' = GoalOp("contribution_update", id, FALSE)
    /\ last_call' = NoCall
    /\ UNCHANGED <<procVars, now, tz, currency_rates, cache_file, last_store, notifyVars, txnVars>>

\* DELETE FROM savings_goal_contributions WHERE id = ?: the delete trigger
\* fires
DeleteContribution ==
    /\ \E id \in DOMAIN contributions :
          LET old == contributions[id]
          IN  /\ old.exists
              /\ contributions' = [contributions EXCEPT ![id] = DeletedContribution]
              /\ savings_goals' = TrgDelete(savings_goals, old)
              /\ last_goal_op' = GoalOp("contribution_delete", id,
                                        RLt(CurrentOf(savings_goals, old.goal_id), old.amount))
    /\ last_call' = NoCall
    /\ UNCHANGED <<procVars, now, tz, currency_rates, cache_file, last_store, notifyVars, txnVars>>

User(default_currency) == [default_currency |-> default_currency]

InitGoals ==
    /\ now = 0
    /\ tz = 0
    /\ currency_rates = EmptyTable
    /\ cache_file = JsonCache(Stamp(0), <<<<"EUR", Num(R(2))>>>>)
    /\ last_store = NoStore
    /\ last_call = NoCall
    /\ budgets = <<>>
    /\ notif_log = <<>>
    /\ last_notify = NoNotify
    /\ last_budgets = <<>>
    /\ savings_goals = <<>>
    /\ contributions = <<>>
    /\ last_goal_op = NoGoalOp
    /\ users = <<User("PLN")>>
    /\ transactions = <<>>
    /\ recurring = <<>>
    /\ last_txn_op = <<>>
    /\ store_txn = <<>>
    /\ requests = <<>>

NextGoals ==
    \/ CreateGoal
    \/ UpdateGoal
    \/ DeleteGoal
    \/ InsertContribution
    \/ UpdateContribution
    \/ DeleteContribution

SpecGoals == InitGoals /\ [][NextGoals]_vars

----------------------------------------------------------------------------
(* Transactions: the write paths and the read paths *)

\* Dates are days on the server's local clock (see Today).  Every transaction
\* and recurrence of the model is an expense of the one user of the model.

Transaction(amount, currency, converted_amount, category_id, budget_id, occurred_on) ==
    [amount |-> amount, currency |-> currency, converted_amount |-> converted_amount,
     category_id |-> category_id, budget_id |-> budget_id, occurred_on |-> occurred_on]

Recurrence(amount, currency, category_id, frequency, next_occurrence, end_date) ==
    [amount |-> amount, currency |-> currency, category_id |-> category_id,
     frequency |-> frequency, next_occurrence |-> next_occurrence,
     end_date |-> end_date, last_generated |-> NoDate]

\* next_recurring_date stepping every frequency by one day
NextRecurringDate_AlwaysDaily(current_date, frequency) ==
    current_date + 1

\* next_recurring_date; the frequencies of the model are daily and weekly
\* (monthly, quarterly and yearly go through add_months)
NextRecurringDate(current_date, frequency) ==
    CASE frequency = "daily" -> current_date + 1
      [] frequency = "weekly" -> current_date + 7
      [] OTHER -> current_date + 30

\* convert_amount called while the connection of the caller has an INSERT or
\* UPDATE not yet committed (writing): a lookup whose ensure_currency_rates
\* goes on to _store_currency_rates runs DELETE on a second connection, waits
\* for the write lock the caller holds, and raises OperationalError (database
\* is locked); nothing of that store is written.
ConvertWhileWriting(env, t, amount, source_currency, target_currency, o, writing) ==
    CHOOSE res \in
        { IF writing /\ \E k \in 1..Len(c.calls) : c.calls[k].stored
          THEN [val |-> RZero, env |-> env, raised |-> TRUE, calls |-> c.calls,
                divided |-> FALSE]
          ELSE c
          : c \in {ConvertAmount(env, t, amount, source_currency, target_currency, o)} }
        : TRUE

\* One pass of the while loop of process_recurring_transactions: the row for
\* acc.next_date is inserted and the date advances.
MaterializeOne(rec, acc, t, user_currency, o) ==
    LET txn_currency == Upper(IF rec.currency # NoCode THEN rec.currency
                              ELSE IF user_currency # NoCode THEN user_currency
                              ELSE "PLN")
    IN  CHOOSE a \in
            { [env |-> c.env,
               raised |-> c.raised,
               writing |-> acc.writing \/ ~c.raised,
               rows |-> IF c.raised THEN acc.rows
                        ELSE Append(acc.rows,
                                    Transaction(rec.amount, txn_currency, Num(c.val),
                                                rec.category_id, NoId, acc.next_date)),
               next_date |-> IF c.raised THEN acc.next_date
                             ELSE NextRecurringDate(acc.next_date, rec.frequency),
               last_generated |-> IF c.raised THEN acc.last_generated ELSE acc.next_date]
              : c \in {ConvertWhileWriting(acc.env, t, rec.amount, txn_currency,
                                           user_currency, o, acc.writing)} } : TRUE

\* while next_date <= today and (end_date is None or next_date <= end_date)
RECURSIVE Materialize(_, _, _, _, _, _)
Materialize(rec, acc, today, t, user_currency, o) ==
    IF acc.raised
       \/ ~(acc.next_date <= today
            /\ (rec.end_date = NoDate \/ acc.next_date <= rec.end_date))
    THEN acc
    ELSE CHOOSE r \in
            { Materialize(rec, a, today, t, user_currency, o)
              : a \in {MaterializeOne(rec, acc, t, user_currency, o)} } : TRUE

\* the WHERE clause of the SELECT on recurring_transactions
Due(rec, today) ==
    /\ rec.next_occurrence <= today
    /\ (rec.end_date = NoDate \/ rec.next_occurrence <= rec.end_date)

\* the loop over the recurrences, from recurrence i on; acc = [env, raised,
\* writing, rows, recs]
RECURSIVE ProcessFrom(_, _, _, _, _, _)
ProcessFrom(i, acc, today, t, user_currency, o) ==
    IF i > Len(acc.recs) \/ acc.raised THEN acc
    ELSE IF ~Due(acc.recs[i], today)
    THEN ProcessFrom(i + 1, acc, today, t, user_currency, o)
    ELSE CHOOSE r \in UNION
            { { ProcessFrom(i + 1, a, today, t, user_currency, o)
                : a \in { [env |-> m.env,
                           raised |-> m.raised,
                           writing |-> m.writing,
                           rows |-> m.rows,
                           recs |-> [acc.recs EXCEPT
                                        ![i].next_occurrence = m.next_date,
                                        ![i].last_generated = m.last_generated]] } }
              : m \in { Materialize(acc.recs[i],
                                    [env |-> acc.env, raised |-> FALSE,
                                     writing |-> acc.writing, rows |-> acc.rows,
                                     next_date |-> acc.recs[i].next_occurrence,
                                     last_generated |-> acc.recs[i].last_generated],
                                    today, t, user_currency, o) } } : TRUE

\* process_recurring_transactions(user_id) at time t: the rate env, the
\* transactions and the recurrences afterwards.  An exception leaves the
\* connection uncommitted: no row is written.
ProcessRecurringTransactions(env, t, offset, rows, recs, user_currency, o) ==
    CHOOSE res \in
        { IF p.raised
          THEN [env |-> p.env, raised |-> TRUE, writing |-> FALSE,
                rows |-> rows, recs |-> recs]
          ELSE p
          : p \in { ProcessFrom(1, [env |-> env, raised |-> FALSE, writing |-> FALSE,
                                    rows |-> rows, recs |-> recs],
                                Today(t, offset), t, user_currency, o) } } : TRUE

\* base_amount and display_amount of one row in GET /transactions and in
\* GET /reports/export: the stored converted_amount, converted from amount
\* and currency only when it is NULL
StoredBaseAmount(env, t, row, user_currency, o) ==
    CHOOSE res \in UNION
        { { [val |-> base.val, env |-> display.env,
             raised |-> base.raised \/ display.raised]
            : display \in { IF base.raised THEN base
                            ELSE ConvertFromBase(base.env, t, base.val, user_currency, o) } }
          : base \in { IF row.converted_amount.k # "none"
                       THEN [val |-> row.converted_amount.v, env |-> env, raised |-> FALSE]
                       ELSE ConvertToBase(env, t, row.amount,
                                          NormalizeCurrency(
                                              IF row.currency # NoCode THEN row.currency
                                              ELSE user_currency, BASE_CURRENCY), o) } } : TRUE

\* amount_pln of one row in GET /budgets: convert_to_base(amount, currency)
BudgetAmountPln(env, t, row, o) ==
    ConvertToBase(env, t, row.amount,
                  IF row.currency # NoCode THEN row.currency ELSE BASE_CURRENCY, o)

\* the loop of a read path over the rows, from row i on; acc = [env, raised,
\* used], used[i] the base amount the path took for row i
RECURSIVE ReadRows(_, _, _, _, _, _, _)
ReadRows(path, rows, i, acc, t, user_currency, o) ==
    IF i > Len(rows) \/ acc.raised THEN acc
    ELSE CHOOSE r \in UNION
            { { ReadRows(path, rows, i + 1, a, t, user_currency, o)
                : a \in { [env |-> b.env, raised |-> b.raised,
                           used |-> Append(acc.used, b.val)] } }
              : b \in { IF path = "budgets"
                        THEN BudgetAmountPln(acc.env, t, rows[i], o)
                        ELSE StoredBaseAmount(acc.env, t, rows[i], user_currency, o) } } : TRUE

\* month_start and month_end on the day `today`; the months of the model are
\* 30 days long
MonthStart(today) == (today \div 30) * 30
MonthEnd(today) == MonthStart(today) + 29

\* start_date and end_date of a budget's window: its own dates, the month's
\* when they are NULL or do not parse
BudgetWindow(budget, today) ==
    [start_date |-> IF budget.start_date.k = "iso" THEN budget.start_date.d
                    ELSE MonthStart(today),
     end_date |-> IF budget.end_date.k = "iso" THEN budget.end_date.d
                  ELSE MonthEnd(today)]

TallyBranch_AnyBudget(txn, budget, budget_id, window) ==
    IF txn.occurred_on < window.start_date \/ txn.occurred_on > window.end_date
    THEN "continue"
    ELSE IF txn.budget_id = budget_id THEN "matched"
    ELSE IF budget.category_id # NoId /\ txn.category_id = budget.category_id
    THEN "fallback"
    ELSE "none"

\* the branch a transaction takes in the loop over the transactions
TallyBranch(txn, budget, budget_id, window) ==
    IF txn.occurred_on < window.start_date \/ txn.occurred_on > window.end_date
    THEN "continue"
    ELSE IF txn.budget_id = budget_id THEN "matched"
    ELSE IF /\ budget.category_id # NoId
            /\ txn.budget_id = NoId
            /\ txn.category_id = budget.category_id
    THEN "fallback"
    ELSE "none"

\* sum of amount_pln and number of the transactions that take `branch`, from
\* row i on
RECURSIVE TallyFrom(_, _, _, _, _, _, _)
TallyFrom(rows, used, budget, budget_id, window, branch, i) ==
    IF i > Len(rows) THEN [sum |-> RZero, n |-> 0]
    ELSE CHOOSE r \in
            { IF TallyBranch(rows[i], budget, budget_id, window) = branch
              THEN [sum |-> RAdd(used[i], rest.sum), n |-> rest.n + 1]
              ELSE rest
              : rest \in {TallyFrom(rows, used, budget, budget_id, window, branch, i + 1)} }
            : TRUE

\* spent_pln (sum) and total_transactions (n) of a budget after the loop and
\* the choice between the matched and the fallback tally
SpentPln(rows, used, budget, budget_id, today) ==
    CHOOSE r \in UNION
        { { IF matched.sum = RZero /\ budget.category_id # NoId
            THEN TallyFrom(rows, used, budget, budget_id, window, "fallback", 1)
            ELSE matched
            : matched \in {TallyFrom(rows, used, budget, budget_id, window, "matched", 1)} }
          : window \in {BudgetWindow(budget, today)} } : TRUE

\* the loop of GET /budgets over the budgets, from budget i on: the tally,
\* the notification, then limit and spent amount in the user's currency;
\* acc = [env, raised, budgets, log, last, resp]
RECURSIVE BudgetsFrom(_, _, _, _, _, _, _, _)
BudgetsFrom(i, acc, rows, used, t, offset, user_currency, o) ==
    IF i > Len(acc.budgets) \/ acc.raised THEN acc
    ELSE CHOOSE r \in UNION UNION UNION
            { { { { BudgetsFrom(i + 1,
                                [env |-> spent_display.env,
                                 raised |-> limit_display.raised \/ spent_display.raised,
                                 budgets |-> [acc.budgets EXCEPT ![i] = n.budget],
                                 log |-> IF n.returned
                                         THEN Append(acc.log, [id |-> i, day |-> Today(t, offset)])
                                         ELSE acc.log,
                                 last |-> [op |-> "notify", id |-> i, spent |-> spent.sum,
                                           returned |-> n.returned,
                                           before |-> acc.budgets[i].last_notified_at],
                                 resp |-> Append(acc.resp,
                                                 [spent_pln |-> spent.sum,
                                                  transaction_count |-> spent.n])],
                                rows, used, t, offset, user_currency, o)
                    : spent_display \in
                        { IF limit_display.raised THEN limit_display
                          ELSE ConvertFromBase(limit_display.env, t, spent.sum,
                                               user_currency, o) } }
                  : limit_display \in
                        { ConvertFromBase(acc.env, t, acc.budgets[i].limit_amount,
                                          user_currency, o) } }
                : n \in { MaybeSendBudgetNotification(acc.budgets[i], spent.sum, t, offset) } }
              : spent \in { SpentPln(rows, used, acc.budgets[i], i, Today(t, offset)) } } : TRUE

\* rows the transactions table may hold when POST /transactions adds one
MaxTransactions == 2
\* the clock of the transaction requests stops advancing here
MaxTxnTime == 25

\* the requests
TxnAmounts == {R(100)}
TxnCurrencies == {NoCode, " eur "}
\* the "amount" field of a PUT: absent, or given
PutAmounts == {NoneVal} \cup {Num(a) : a \in TxnAmounts}
\* users.default_currency
UserCurrencies == {"PLN", "EUR"}
\* recurring_transactions.currency: NULL, or a code
RecurringCurrencies == {NoCode, "EUR"}

\* written: ids of the rows the request inserted or updated; used: for a
\* read, the base amount taken for each row
TxnOp(op, written, used) == [op |-> op, written |-> written, used |-> used]
NoTxnOp == TxnOp("none", {}, <<>>)

\* POST /transactions: an expense on budget 1, dated today
PostTransaction ==
    /\ Len(transactions) < MaxTransactions
    /\ 1 \in DOMAIN budgets
    /\ \E amount \in TxnAmounts, currency \in TxnCurrencies, o \in HandlerFetches :
          LET user_currency == NormalizeCurrency(users[1].default_currency, BASE_CURRENCY)
              given == Upper(Strip(currency))
              txn_currency == NormalizeCurrency(IF given # NoCode THEN given
                                                ELSE user_currency, BASE_CURRENCY)
          IN
          \E converted_amount \in {ConvertToBase(Env, now, amount, txn_currency, o)} :
              /\ SetEnv(converted_amount.env)
              /\ IF converted_amount.raised
                 THEN UNCHANGED transactions /\ last_txn_op' = NoTxnOp
                 ELSE /\ transactions' =
                            Append(transactions,
                                   Transaction(amount, txn_currency,
                                               Num(converted_amount.val),
                                               NoId, 1, Today(now, tz)))
                      /\ last_txn_op' = TxnOp("post", {Len(transactions) + 1}, <<>>)
    /\ last_call' = NoCall
    /\ UNCHANGED <<procVars, now, tz, notifyVars, goalVars, users, recurring>>

\* PUT /transactions/<id>, with or without a new amount: converted_amount is
\* computed again from the row's amount and currency
PutTransaction ==
    /\ \E id \in DOMAIN transactions, amount \in PutAmounts, o \in HandlerFetches :
          LET existing == transactions[id]
              user_currency == NormalizeCurrency(users[1].default_currency, BASE_CURRENCY)
              amount_value == IF amount.k = "num" THEN amount.v ELSE existing.amount
              currency_value == IF existing.currency # NoCode THEN existing.currency
                                ELSE user_currency
              txn_currency == NormalizeCurrency(IF currency_value # NoCode
                                                THEN currency_value
                                                ELSE user_currency, BASE_CURRENCY)
          IN
          \E converted_amount \in {ConvertToBase(Env, now, amount_value, txn_currency, o)} :
              /\ SetEnv(converted_amount.env)
              /\ IF converted_amount.raised
                 THEN UNCHANGED transactions /\ last_txn_op' = NoTxnOp
                 ELSE /\ transactions' =
                            [transactions EXCEPT ![id] =
                                [existing EXCEPT !.amount = amount_value,
                                                 !.currency = txn_currency,
                                                 !.converted_amount =
                                                     Num(converted_amount.val)]]
                      /\ last_txn_op' = TxnOp("put", {id}, <<>>)
    /\ last_call' = NoCall
    /\ UNCHANGED <<procVars, now, tz, notifyVars, goalVars, users, recurring>>

\* GET /transactions and GET /reports/export: process_recurring_transactions,
\* then the rows with their base and display amounts
ReadTransactions(op) ==
    /\ \E o \in HandlerFetches :
       \E p \in { ProcessRecurringTransactions(Env, now, tz, transactions, recurring,
                                               users[1].default_currency, o) } :
       \E r \in { ReadRows("stored", p.rows, 1,
                           [env |-> p.env, raised |-> p.raised, used |-> <<>>], now,
                           NormalizeCurrency(users[1].default_currency, BASE_CURRENCY),
                           o) } :
          /\ SetEnv(r.env)
          /\ transactions' = p.rows
          /\ recurring' = p.recs
          /\ last_txn_op' = IF r.raised
                            THEN TxnOp(op, (Len(transactions) + 1)..Len(p.rows), <<>>)
                            ELSE TxnOp(op, (Len(transactions) + 1)..Len(p.rows), r.used)
    /\ last_call' = NoCall
    /\ UNCHANGED <<procVars, now, tz, notifyVars, goalVars, users>>

GetTransactions == ReadTransactions("get_transactions")

ExportReports == ReadTransactions("export_reports")

\* GET /budgets: process_recurring_transactions, amount_pln of every expense,
\* then every budget with its spent amount and its notification
GetBudgets ==
    /\ \E o \in HandlerFetches :
       \E user_currency \in {NormalizeCurrency(users[1].default_currency, BASE_CURRENCY)} :
       \E p \in { ProcessRecurringTransactions(Env, now, tz, transactions, recurring,
                                               users[1].default_currency, o) } :
       \E r \in { ReadRows("budgets", p.rows, 1,
                           [env |-> p.env, raised |-> p.raised, used |-> <<>>], now,
                           user_currency, o) } :
       \E b \in { BudgetsFrom(1, [env |-> r.env, raised |-> r.raised, budgets |-> budgets,
                                  log |-> notif_log, last |-> NoNotify, resp |-> <<>>],
                              p.rows, r.used, now, tz, user_currency, o) } :
          /\ SetEnv(b.env)
          /\ transactions' = p.rows
          /\ recurring' = p.recs
          /\ budgets' = b.budgets
          /\ notif_log' = b.log
          /\ last_notify' = b.last
          /\ last_budgets' = IF b.raised THEN <<>> ELSE b.resp
          /\ last_txn_op' = IF r.raised
                            THEN TxnOp("get_budgets", (Len(transactions) + 1)..Len(p.rows), <<>>)
                            ELSE TxnOp("get_budgets", (Len(transactions) + 1)..Len(p.rows), r.used)
    /\ last_call' = NoCall
    /\ UNCHANGED <<procVars, now, tz, goalVars, users>>

TickTxn ==
    /\ \E d \in TickSteps : now + d <= MaxTxnTime /\ now' = now + d
    /\ last_call' = NoCall
    /\ last_txn_op' = NoTxnOp
    /\ UNCHANGED <<procVars, tz, currency_rates, cache_file, last_store, notifyVars, goalVars,
                   users, transactions, recurring>>

\* a row written before the converted_amount column existed
LegacyTransaction == Transaction(R(100), "EUR", NoneVal, NoId, 1, 0)

InitTxn ==
    /\ now = 0
    /\ tz = 0
    /\ currency_rates = EmptyTable
    /\ cache_file = JsonCache(Stamp(0), <<<<"EUR", Num(R(4))>>>>)
    /\ last_store = NoStore
    /\ last_call = NoCall
    /\ budgets = <<Budget(R(1000))>>
    /\ notif_log = <<>>
    /\ last_notify = NoNotify
    /\ last_budgets = <<>>
    /\ savings_goals = <<>>
    /\ contributions = <<>>
    /\ last_goal_op = NoGoalOp
    /\ users \in {<<User(c)>> : c \in UserCurrencies}
    /\ transactions \in {<<>>, <<LegacyTransaction>>}
    /\ recurring \in {<<Recurrence(R(100), c, 1, "daily", 0, 1)>> : c \in RecurringCurrencies}
    /\ last_txn_op = NoTxnOp
    /\ store_txn = <<>>
    /\ requests = <<>>

NextTxn ==
    \/ TickTxn
    \/ PostTransaction
    \/ PutTransaction
    \/ GetTransactions
    \/ ExportReports
    \/ GetBudgets

SpecTxn == InitTxn /\ [][NextTxn]_vars

----------------------------------------------------------------------------
(* GET /budgets over budgets with categories and windows *)

\* start_date and end_date of the first budget
BudgetWindows ==
    { <<NullDate, NullDate>>, <<IsoDate(1), IsoDate(32)>>,
      <<IsoDate(1), NullDate>>, <<JunkDate, JunkDate>> }

\* expenses in PLN: of budget 1, of budget 2 or of none, of category 1 or 2,
\* dated inside or outside the windows
BudgetTxns ==
    { Transaction(a, "PLN", Num(a), c, b, d)
      : a \in {R(0), R(100)}, c \in {1, 2}, b \in {NoId, 1, 2}, d \in {0, 1, 32} }

InitBudgets ==
    /\ now = 0
    /\ tz = 0
    /\ currency_rates = EmptyTable
    /\ cache_file = JsonCache(Stamp(0), <<<<"EUR", Num(R(4))>>>>)
    /\ last_store = NoStore
    /\ last_call = NoCall
    /\ budgets \in { <<BudgetRow(R(1000), c, w[1], w[2]),
                       BudgetRow(R(1000), 2, NullDate, NullDate)>>
                     : c \in {NoId, 1}, w \in BudgetWindows }
    /\ notif_log = <<>>
    /\ last_notify = NoNotify
    /\ last_budgets = <<>>
    /\ savings_goals = <<>>
    /\ contributions = <<>>
    /\ last_goal_op = NoGoalOp
    /\ users = <<User("PLN")>>
    /\ transactions \in {<<x, y>> : x \in BudgetTxns, y \in BudgetTxns}
    /\ recurring = <<>>
    /\ last_txn_op = NoTxnOp
    /\ store_txn = <<>>
    /\ requests = <<>>

NextBudgets == GetBudgets

SpecBudgets == InitBudgets /\ [][NextBudgets]_vars

----------------------------------------------------------------------------
(* Direct calls of get_exchange_rate and convert_amount *)

\* currency arguments: missing, the base currency, a code with blanks and in
\* lower case, codes with a row, without a row, and with a zero rate
ConvertCodes == {NoCode, "PLN", " eur ", "EUR", "USD", "CHF"}

ConvertAmounts == {R(100)}

\* the rate source during a call: down, answering, answering with the cache
\* file not writable, answering with an element that is not an object
ConvertFetches ==
    { [out |-> [kind |-> "timeout", items |-> <<>>], cw |-> "ok"],
      [out |-> [kind |-> "payload",
                items |-> <<Item("EUR", Num(Rat(43, 10))), Item("usd", Num(R(4)))>>],
       cw |-> "ok"],
      [out |-> [kind |-> "payload",
                items |-> <<Item("EUR", Num(Rat(43, 10))), Item("usd", Num(R(4)))>>],
       cw |-> "oserror"],
      [out |-> [kind |-> "payload", items |-> <<Item("EUR", Num(R(5))), NotObj>>],
       cw |-> "ok"] }

\* rate tables at start: empty, {PLN: 1.0, EUR: 4.30, USD: 4.00}, and one
\* with a zero rate
ConvertTables ==
    { EmptyTable,
      StoreCurrencyRates(EmptyTable,
          <<<<"EUR", Num(Rat(43, 10))>>, <<"USD", Num(R(4))>>>>, Stamp(0)),
      StoreCurrencyRates(EmptyTable,
          <<<<"EUR", Num(Rat(43, 10))>>, <<"CHF", Num(R(0))>>>>, Stamp(0)) }

\* cache files at start: none, and a fresh snapshot
ConvertCaches == {AbsentCache, JsonCache(Stamp(0), <<<<"EUR", Num(R(5))>>>>)}

\* get_exchange_rate(currency)
GetRate ==
    /\ \E currency \in ConvertCodes, o \in ConvertFetches :
          \E r \in {GetExchangeRate(Env, now, currency, o)} :
             /\ SetEnv(r.env)
             /\ last_call' = [op |-> "get_exchange_rate", currency |-> currency,
                              val |-> r.val, raised |-> r.raised, call |-> r.call]
    /\ UNCHANGED <<procVars, now, tz, notifyVars, goalVars, txnVars>>

\* convert_amount(amount, source_currency, target_currency)
Convert ==
    /\ \E amount \in ConvertAmounts, source \in ConvertCodes, target \in ConvertCodes,
          o \in ConvertFetches :
          \E r \in {ConvertAmount(Env, now, amount, source, target, o)} :
             /\ SetEnv(r.env)
             /\ last_call' = [op |-> "convert_amount", amount |-> amount,
                              source |-> source, target |-> target,
                              val |-> r.val, raised |-> r.raised, calls |-> r.calls,
                              divided |-> r.divided]
    /\ UNCHANGED <<procVars, now, tz, notifyVars, goalVars, txnVars>>

\* the currencies of a round trip: the base currency, codes with a row,
\* without a row, and with a zero rate
RoundTripCodes == {"PLN", "EUR", "USD", "CHF"}

\* convert_amount(convert_amount(amount, x, y), y, x): the rate source may
\* answer the second call as it did the first, or be down; table1 is the
\* table after the first call
RoundTrip ==
    /\ \E amount \in ConvertAmounts, x \in RoundTripCodes, y \in RoundTripCodes,
          o1 \in ConvertFetches :
       \E o2 \in {o1, [out |-> [kind |-> "timeout", items |-> <<>>], cw |-> "ok"]} :
          \E r1 \in {ConvertAmount(Env, now, amount, x, y, o1)} :
             \E r2 \in {IF r1.raised THEN r1
                         ELSE ConvertAmount(r1.env, now, r1.val, y, x, o2)} :
                /\ SetEnv(r2.env)
                /\ last_call' = [op |-> "round_trip", amount |-> amount,
                                 x |-> x, y |-> y, table1 |-> r1.env.table,
                                 val |-> r2.val, raised |-> r2.raised]
    /\ UNCHANGED <<procVars, now, tz, notifyVars, goalVars, txnVars>>

InitConvert ==
    /\ now = 0
    /\ currency_rates \in ConvertTables
    /\ cache_file \in ConvertCaches
    /\ last_store = NoStore
    /\ last_call = NoCall
    /\ InitOther

NextConvert == GetRate \/ Convert \/ RoundTrip \/ ListCurrencies

SpecConvert == InitConvert /\ [][NextConvert]_vars

----------------------------------------------------------------------------
(* _store_currency_rates statement by statement, with concurrent readers *)

\* callers of _store_currency_rates that may run at the same time
MaxWriters == 2

\* the keys of `sanitized` in insertion order: 'PLN', then every kept code
\* where it first occurs
RECURSIVE SanitizedOrderFrom(_, _, _)
SanitizedOrderFrom(rates, i, acc) ==
    IF i > Len(rates) THEN acc
    ELSE LET code == rates[i][1]
             value == rates[i][2]
         IN  IF code = NoCode \/ value.k # "num"
                \/ Upper(code) \in {acc[k] : k \in 1..Len(acc)}
             THEN SanitizedOrderFrom(rates, i + 1, acc)
             ELSE SanitizedOrderFrom(rates, i + 1, Append(acc, Upper(code)))

SanitizedOrder(rates) == SanitizedOrderFrom(rates, 1, <<BASE_CURRENCY>>)

\* a caller outside _store_currency_rates
IdleStore ==
    [pc |-> "idle", rates |-> <<>>, fetched_at |-> NoStamp, pending |-> <<>>,
     view |-> EmptyTable]

\* the write lock of the database is held: some connection has executed
\* DELETE and not yet committed
WriteLocked(txns) == \E w \in DOMAIN txns : txns[w].pc = "open"

\* the transaction holding the write lock
OpenStore(txns) == txns[CHOOSE w \in DOMAIN txns : txns[w].pc = "open"]

\* a reader that sees the statements of an open transaction
VisibleTable_Uncommitted(committed, txns) ==
    IF WriteLocked(txns) THEN OpenStore(txns).view ELSE committed

\* What a SELECT on another connection sees: every call opens a connection
\* of its own, and a connection sees the committed rows only.
VisibleTable(committed, txns) == committed

\* the rate dicts stored
StoreInputs ==
    { <<>>,
      <<<<"EUR", Num(Rat(43, 10))>>>>,
      <<<<"EUR", Num(R(5))>>, <<"usd", Num(R(4))>>>> }

\* cursor.execute('DELETE FROM currency_rates'): opens the transaction and
\* takes the write lock; a second writer waits for it
StoreDelete(w) ==
    /\ store_txn[w].pc = "idle"
    /\ ~WriteLocked(store_txn)
    /\ \E rates \in StoreInputs :
          store_txn' = [store_txn EXCEPT ![w] =
                           [pc |-> "open", rates |-> rates, fetched_at |-> Stamp(now),
                            pending |-> SanitizedOrder(rates), view |-> EmptyTable]]
    /\ last_call' = NoCall
    /\ UNCHANGED <<now, tz, currency_rates, cache_file, last_store, requests>>
    /\ UNCHANGED <<notifyVars, goalVars, txnVars>>

\* the wait for the write lock times out: DELETE raises OperationalError and
\* the connection is closed
StoreLocked(w) ==
    /\ store_txn[w].pc = "idle"
    /\ WriteLocked(store_txn)
    /\ last_call' = [op |-> "store", raised |-> TRUE]
    /\ UNCHANGED <<now, tz, currency_rates, cache_file, last_store, procVars>>
    /\ UNCHANGED <<notifyVars, goalVars, txnVars>>

\* one INSERT OR REPLACE of the loop over sanitized.items()
StoreInsert(w) ==
    /\ store_txn[w].pc = "open"
    /\ store_txn[w].pending # <<>>
    /\ LET code == Head(store_txn[w].pending)
           row == [rate |-> Sanitized(store_txn[w].rates)[code],
                   fetched_at |-> store_txn[w].fetched_at]
       IN  store_txn' = [store_txn EXCEPT
                            ![w].pending = Tail(@),
                            ![w].view = (code :> row) @@ @]
    /\ last_call' = NoCall
    /\ UNCHANGED <<now, tz, currency_rates, cache_file, last_store, requests>>
    /\ UNCHANGED <<notifyVars, goalVars, txnVars>>

\* conn.commit()
StoreCommit(w) ==
    /\ store_txn[w].pc = "open"
    /\ store_txn[w].pending = <<>>
    /\ currency_rates' = store_txn[w].view
    /\ last_store' = [done |-> TRUE, rates |-> store_txn[w].rates,
                      fetched_at |-> store_txn[w].fetched_at]
    /\ store_txn' = [store_txn EXCEPT ![w] = IdleStore]
    /\ last_call' = NoCall
    /\ UNCHANGED <<now, tz, cache_file, requests>>
    /\ UNCHANGED <<notifyVars, goalVars, txnVars>>

\* The SELECT of get_exchange_rate or list_currencies on its own
\* connection.  The record keeps, beside the rows read, the snapshot of the
\* last finished store, and the snapshot and the rows written so far of the
\* store in progress.
ReadRates ==
    /\ last_call' =
          [op |-> "read",
           table |-> VisibleTable(currency_rates, store_txn),
           previous |-> StoreCurrencyRates(EmptyTable, last_store.rates,
                                           last_store.fetched_at),
           during |-> WriteLocked(store_txn),
           next |-> IF WriteLocked(store_txn)
                    THEN StoreCurrencyRates(EmptyTable, OpenStore(store_txn).rates,
                                            OpenStore(store_txn).fetched_at)
                    ELSE EmptyTable,
           written |-> IF WriteLocked(store_txn)
                       THEN OpenStore(store_txn).view
                       ELSE EmptyTable]
    /\ UNCHANGED <<now, tz, currency_rates, cache_file, last_store, procVars>>
    /\ UNCHANGED <<notifyVars, goalVars, txnVars>>

\* the table holds the snapshot of a finished store: the process has run
\* ensure_currency_rates before
InitStore ==
    /\ now = 0
    /\ \E rates \in StoreInputs :
          /\ currency_rates = StoreCurrencyRates(EmptyTable, rates, Stamp(0 - 1))
          /\ last_store = [done |-> TRUE, rates |-> rates, fetched_at |-> Stamp(0 - 1)]
    /\ cache_file = AbsentCache
    /\ last_call = NoCall
    /\ tz = 0
    /\ budgets = <<>>
    /\ notif_log = <<>>
    /\ last_notify = <<>>
    /\ last_budgets = <<>>
    /\ savings_goals = <<>>
    /\ contributions = <<>>
    /\ last_goal_op = <<>>
    /\ users = <<>>
    /\ transactions = <<>>
    /\ recurring = <<>>
    /\ last_txn_op = <<>>
    /\ store_txn = [w \in 1..MaxWriters |-> IdleStore]
    /\ requests = <<>>

NextStore ==
    \/ \E w \in 1..MaxWriters :
          StoreDelete(w) \/ StoreLocked(w) \/ StoreInsert(w) \/ StoreCommit(w)
    \/ ReadRates

SpecStore == InitStore /\ [][NextStore]_vars

----------------------------------------------------------------------------
(* GET /budgets requests running at the same time *)

\* requests that may be in progress at once
MaxRequests == 2

\* a request that has not selected the budgets yet
IdleRequest == [pc |-> "idle", raw_budgets |-> <<>>]

\* spent_amount a request computes for its budgets: under and over the
\* threshold
RequestSpents == {R(0), R(950)}

\* The loop over raw_budgets from row i on: maybe_send_budget_notification
\* gets the row as the request selected it; a notification is logged and the
\* stamp is written to the budgets table and committed.
\* acc = [budgets, log]
RECURSIVE NotifyFrom(_, _, _, _, _, _)
NotifyFrom(raw_budgets, i, spent, t, offset, acc) ==
    IF i > Len(raw_budgets) THEN acc
    ELSE CHOOSE res \in
            { NotifyFrom(raw_budgets, i + 1, spent, t, offset,
                  IF r.returned
                  THEN [budgets |-> [acc.budgets EXCEPT ![i].last_notified_at =
                                        r.budget.last_notified_at],
                        log |-> Append(acc.log, [id |-> i, day |-> Today(t, offset)])]
                  ELSE acc)
              : r \in {MaybeSendBudgetNotification(raw_budgets[i], spent, t, offset)} }
            : TRUE

\* SELECT * FROM budgets WHERE user_id = ?: raw_budgets of the request
RequestRead(r) ==
    /\ requests[r].pc = "idle"
    /\ requests' = [requests EXCEPT ![r] = [pc |-> "read", raw_budgets |-> budgets]]
    /\ last_notify' = NoNotify
    /\ UNCHANGED <<now, tz, rateVars, budgets, notif_log, last_budgets, store_txn>>
    /\ UNCHANGED <<goalVars, txnVars>>

\* the loop over raw_budgets of the request, and its response
RequestNotify(r) ==
    /\ requests[r].pc = "read"
    /\ Len(notif_log) + Len(requests[r].raw_budgets) <= MaxNotifications
    /\ \E spent \in RequestSpents :
          \E res \in {NotifyFrom(requests[r].raw_budgets, 1, spent, now, tz,
                                 [budgets |-> budgets, log |-> notif_log])} :
             /\ budgets' = res.budgets
             /\ notif_log' = res.log
             /\ last_notify' = [op |-> "request", id |-> r, spent |-> spent,
                                returned |-> res.log # notif_log,
                                before |-> NoStamp]
    /\ requests' = [requests EXCEPT ![r] = IdleRequest]
    /\ UNCHANGED <<now, tz, rateVars, last_budgets, store_txn>>
    /\ UNCHANGED <<goalVars, txnVars>>

\* the clock of the requests; the server's local time is UTC
TickRequests ==
    /\ \E d \in TickSteps : now + d <= MaxTime /\ now' = now + d
    /\ last_notify' = NoNotify
    /\ UNCHANGED <<tz, rateVars, budgets, notif_log, last_budgets, procVars>>
    /\ UNCHANGED <<goalVars, txnVars>>

InitRequests ==
    /\ now \in StartHours
    /\ tz = 0
    /\ currency_rates = EmptyTable
    /\ cache_file = AbsentCache
    /\ last_store = NoStore
    /\ last_call = NoCall
    /\ budgets = <<Budget(R(1000))>>
    /\ notif_log = <<>>
    /\ last_notify = NoNotify
    /\ last_budgets = <<>>
    /\ savings_goals = <<>>
    /\ contributions = <<>>
    /\ last_goal_op = <<>>
    /\ users = <<>>
    /\ transactions = <<>>
    /\ recurring = <<>>
    /\ last_txn_op = <<>>
    /\ store_txn = <<>>
    /\ requests = [r \in 1..MaxRequests |-> IdleRequest]

NextRequests ==
    \/ \E r \in 1..MaxRequests : RequestRead(r) \/ RequestNotify(r)
    \/ TickRequests

SpecRequests == InitRequests /\ [][NextRequests]_vars

----------------------------------------------------------------------------
(* convert_amount lookup by lookup, with other requests in between *)

\* a convert_amount call that has not looked up a rate yet
IdleConvert ==
    [pc |-> "idle", amount |-> RZero, source |-> NoCode, target |-> NoCode,
     source_rate |-> ROne, source_table |-> EmptyTable]

\* currencies other than the base currency
NonBaseCodes == {"EUR", "USD"}

\* source_rate = get_exchange_rate(source): ensure_currency_rates, then the
\* SELECT on a connection of its own; the call proceeds to the second lookup
\* unless ensure_currency_rates raised
ConvertSource(r) ==
    /\ requests[r].pc = "idle"
    /\ \E amount \in ConvertAmounts, source \in NonBaseCodes, target \in NonBaseCodes,
          o \in ConvertFetches :
          /\ source # target
          /\ \E g \in {GetExchangeRate(Env, now, source, o)} :
                /\ SetEnv(g.env)
                /\ IF g.raised
                   THEN /\ requests' = requests
                        /\ last_call' = [op |-> "convert_lookups", raised |-> TRUE]
                   ELSE /\ requests' = [requests EXCEPT ![r] =
                                           [pc |-> "source", amount |-> amount,
                                            source |-> source, target |-> target,
                                            source_rate |-> g.val,
                                            source_table |-> g.env.table]]
                        /\ last_call' = NoCall
    /\ UNCHANGED <<now, tz, store_txn, notifyVars, goalVars, txnVars>>

\* target_rate = get_exchange_rate(target) and the arithmetic; the record
\* keeps the table each lookup read
ConvertTarget(r) ==
    /\ requests[r].pc = "source"
    /\ \E o \in ConvertFetches :
          \E g \in {GetExchangeRate(Env, now, requests[r].target, o)} :
             /\ SetEnv(g.env)
             /\ last_call' =
                   [op |-> "convert_lookups", raised |-> g.raised,
                    amount |-> requests[r].amount,
                    source |-> requests[r].source, target |-> requests[r].target,
                    source_rate |-> requests[r].source_rate,
                    target_rate |-> g.val,
                    source_table |-> requests[r].source_table,
                    target_table |-> g.env.table,
                    val |-> IF g.val = RZero
                            THEN RMul(requests[r].amount, requests[r].source_rate)
                            ELSE RDiv(RMul(requests[r].amount, requests[r].source_rate),
                                      g.val)]
    /\ requests' = [requests EXCEPT ![r] = IdleConvert]
    /\ UNCHANGED <<now, tz, store_txn, notifyVars, goalVars, txnVars>>

InitLookups ==
    /\ now = 0
    /\ currency_rates \in ConvertTables
    /\ cache_file \in ConvertCaches
    /\ last_store = NoStore
    /\ last_call = NoCall
    /\ tz = 0
    /\ budgets = <<>>
    /\ notif_log = <<>>
    /\ last_notify = <<>>
    /\ last_budgets = <<>>
    /\ savings_goals = <<>>
    /\ contributions = <<>>
    /\ last_goal_op = <<>>
    /\ users = <<>>
    /\ transactions = <<>>
    /\ recurring = <<>>
    /\ last_txn_op = <<>>
    /\ store_txn = <<>>
    /\ requests = <<IdleConvert>>

\* one convert_amount call, and GET /currencies requests of other clients
NextLookups == ConvertSource(1) \/ ConvertTarget(1) \/ ListCurrencies

SpecLookups == InitLookups /\ [][NextLookups]_vars

----------------------------------------------------------------------------
(* process_recurring_transactions called again and again, one call at a time *)

MaxRecTime == 192

\* the schedules of the two recurrences of the model: recurrence i has
\* category_id i; dates are days
RecurringSchedules(category_id) ==
    { Recurrence(R(100), c, category_id, s.frequency, s.next_occurrence, s.end_date)
      : c \in RecurringCurrencies,
        s \in { [frequency |-> "daily", next_occurrence |-> 0, end_date |-> 2],
                [frequency |-> "weekly", next_occurrence |-> 0, end_date |-> NoDate],
                [frequency |-> "daily", next_occurrence |-> 6, end_date |-> NoDate] } }

ProcessOp(raised, today, written, repeated) ==
    [op |-> "process", raised |-> raised, today |-> today, written |-> written,
     repeated |-> repeated]

\* one call of process_recurring_transactions(user_id); repeated: the call
\* before it returned on the same day
ProcessRecurring ==
    /\ \E o \in HandlerFetches :
       \E p \in { ProcessRecurringTransactions(Env, now, tz, transactions, recurring,
                                               users[1].default_currency, o) } :
          /\ SetEnv(p.env)
          /\ transactions' = p.rows
          /\ recurring' = p.recs
          /\ last_txn_op' = ProcessOp(p.raised, Today(now, tz),
                                      (Len(transactions) + 1)..Len(p.rows),
                                      /\ last_txn_op.op = "process"
                                      /\ ~last_txn_op.raised
                                      /\ last_txn_op.today = Today(now, tz))
    /\ last_call' = NoCall
    /\ UNCHANGED <<procVars, now, tz, notifyVars, goalVars, users>>

TickRecurring ==
    /\ \E d \in {12, 48} : now + d <= MaxRecTime /\ now' = now + d
    /\ last_call' = NoCall
    /\ UNCHANGED <<procVars, tz, currency_rates, cache_file, last_store, notifyVars,
                   goalVars, txnVars>>

InitRecurring ==
    /\ now = 0
    /\ tz = 0
    /\ currency_rates = EmptyTable
    /\ cache_file \in {AbsentCache, JsonCache(Stamp(0), <<<<"EUR", Num(R(4))>>>>)}
    /\ last_store = NoStore
    /\ last_call = NoCall
    /\ budgets = <<>>
    /\ notif_log = <<>>
    /\ last_notify = NoNotify
    /\ last_budgets = <<>>
    /\ savings_goals = <<>>
    /\ contributions = <<>>
    /\ last_goal_op = NoGoalOp
    /\ users = <<User("PLN")>>
    /\ transactions = <<>>
    /\ recurring \in { <<a, b>> : a \in RecurringSchedules(1), b \in RecurringSchedules(2) }
    /\ last_txn_op = NoTxnOp
    /\ store_txn = <<>>
    /\ requests = <<>>

NextRecurring ==
    \/ TickRecurring
    \/ ProcessRecurring

SpecRecurring == InitRecurring /\ [][NextRecurring]_vars

----------------------------------------------------------------------------
(* process_recurring_transactions of several requests of one user, interleaved *)

\* A request is idle, or has run the SELECT on recurring_transactions and
\* holds the rows it fetched (recurrences) and the day it read (today).
IdleProcess == [pc |-> "idle", recurrences |-> <<>>, today |-> 0]

\* the SELECT of the due recurrences, on the request's own connection; with
\* none due the call returns at once
ProcessSelect(r) ==
    /\ requests[r].pc = "idle"
    /\ \E today \in {Today(now, tz)} :
          IF \E i \in 1..Len(recurring) : Due(recurring[i], today)
          THEN /\ requests' = [requests EXCEPT ![r] = [pc |-> "selected",
                                                       recurrences |-> recurring,
                                                       today |-> today]]
               /\ UNCHANGED last_txn_op
          ELSE /\ last_txn_op' = ProcessOp(FALSE, today, {}, FALSE)
               /\ UNCHANGED requests
    /\ last_call' = NoCall
    /\ UNCHANGED <<store_txn, now, tz, currency_rates, cache_file, last_store, notifyVars,
                   goalVars, users, transactions, recurring>>

\* the loop over the fetched recurrences, the UPDATE of each and the commit:
\* the rows are inserted for the dates of the fetched next_occurrence, and
\* only the fetched recurrences are updated
ProcessWrite(r) ==
    /\ requests[r].pc = "selected"
    /\ \E o \in HandlerFetches :
       \E q \in { ProcessFrom(1, [env |-> Env, raised |-> FALSE, writing |-> FALSE,
                                  rows |-> transactions,
                                  recs |-> requests[r].recurrences],
                              requests[r].today, now, users[1].default_currency, o) } :
          /\ SetEnv(q.env)
          /\ transactions' = IF q.raised THEN transactions ELSE q.rows
          /\ recurring' = IF q.raised THEN recurring
                          ELSE [i \in DOMAIN recurring |->
                                   IF Due(requests[r].recurrences[i], requests[r].today)
                                   THEN q.recs[i] ELSE recurring[i]]
          /\ last_txn_op' = ProcessOp(q.raised, requests[r].today,
                                      IF q.raised THEN {}
                                      ELSE (Len(transactions) + 1)..Len(q.rows), FALSE)
    /\ requests' = [requests EXCEPT ![r] = IdleProcess]
    /\ last_call' = NoCall
    /\ UNCHANGED <<store_txn, now, tz, notifyVars, goalVars, users>>

MaxProcessTime == 36

TickProcesses ==
    /\ \E d \in {12} : now + d <= MaxProcessTime /\ now' = now + d
    /\ last_call' = NoCall
    /\ UNCHANGED <<procVars, tz, currency_rates, cache_file, last_store, notifyVars,
                   goalVars, txnVars>>

InitProcesses ==
    /\ now = 0
    /\ tz = 0
    /\ currency_rates = EmptyTable
    /\ cache_file = AbsentCache
    /\ last_store = NoStore
    /\ last_call = NoCall
    /\ budgets = <<>>
    /\ notif_log = <<>>
    /\ last_notify = NoNotify
    /\ last_budgets = <<>>
    /\ savings_goals = <<>>
    /\ contributions = <<>>
    /\ last_goal_op = NoGoalOp
    /\ users = <<User("PLN")>>
    /\ transactions = <<>>
    /\ recurring \in { <<a>> : a \in RecurringSchedules(1) }
    /\ last_txn_op = NoTxnOp
    /\ store_txn = <<>>
    /\ requests = [r \in 1..MaxRequests |-> IdleProcess]

NextProcesses ==
    \/ TickProcesses
    \/ \E r \in 1..MaxRequests : ProcessSelect(r)
    \/ \E r \in 1..MaxRequests : ProcessWrite(r)

SpecProcesses == InitProcesses /\ [][NextProcesses]_vars

----------------------------------------------------------------------------
(* Authentication and the resolution of the target user *)

MaxBudgets == 2

\* str.strip().lower() on the e-mail strings of the model
NormalizeEmail(raw) ==
    CASE raw = " B@X " -> "b@x"
      [] raw = "A@x" -> "a@x"
      [] OTHER -> raw

\* hash_password / check_password: a hash matches the password it was made from
HashPassword(password) == <<"hash", password>>
CheckPassword(password, password_hash) == password_hash = HashPassword(password)

Account(email, role, password) ==
    [email |-> email, role |-> role, password_hash |-> HashPassword(password),
     default_currency |-> "PLN"]

\* get_user_by_email: the id of the row with this e-mail, NoId without one
GetUserByEmail(accounts, email) ==
    IF \E i \in 1..Len(accounts) : accounts[i].email = email
    THEN CHOOSE i \in 1..Len(accounts) : accounts[i].email = email
    ELSE NoId

\* authenticate_user(email, password): the id of the user, NoId for None
AuthenticateUser(accounts, email, password) ==
    LET normalized_email == NormalizeEmail(email)
        user == GetUserByEmail(accounts, normalized_email)
    IN  IF normalized_email = "" \/ password = "" THEN NoId
        ELSE IF user = NoId THEN NoId
        ELSE IF ~CheckPassword(password, accounts[user].password_hash) THEN NoId
        ELSE user

\* the Authorization header of a request: absent, or Basic e-mail:password
NoHeader == [email |-> "", password |-> ""]
Headers ==
    {NoHeader} \cup { [email |-> e, password |-> p]
                      : e \in {"a@x", "A@x", "admin@x"}, p \in {"pa", "pc"} }

\* the wrapper of auth_required(): g.current_user (NoId when the request is
\* answered 401 and the endpoint never runs)
AuthRequired(accounts, header) ==
    LET email == NormalizeEmail(header.email)
    IN  IF email = "" \/ header.password = ""
        THEN [status |-> 401, current_user |-> NoId]
        ELSE IF AuthenticateUser(accounts, email, header.password) = NoId
        THEN [status |-> 401, current_user |-> NoId]
        ELSE [status |-> 200,
              current_user |-> AuthenticateUser(accounts, email, header.password)]

\* resolve_user_id(cursor, email) with g.current_user = current (NoId: unset)
ResolveUserId(accounts, current, email) ==
    LET user == GetUserByEmail(accounts, email)
    IN  IF current # NoId /\ email # "" /\ email # accounts[current].email
           /\ accounts[current].role # "admin"
        THEN NoId
        ELSE IF current # NoId /\ (email = "" \/ email = accounts[current].email)
        THEN current
        ELSE IF email = "" THEN NoId
        ELSE IF user = NoId THEN NoId
        ELSE IF current # NoId /\ accounts[current].role # "admin" /\ user # current
        THEN NoId
        ELSE user

\* the endpoints that resolve their target user: those wrapped in
\* auth_required() and those that are not
ProtectedEndpoints == {"transactions", "categories"}
OpenEndpoints ==
    {"budgets", "savings_goals", "savings_goal_contribution", "dashboard_summary",
     "reports_export"}

TargetEmails == {"", "a@x", " B@X ", "nobody@x"}

\* the user the endpoint goes on to work for: the wrapper where there is one,
\* then the e-mail of the request, stripped and lowered, through
\* resolve_user_id; the open endpoints answer 400 to an empty e-mail
ResolveFor(accounts, endpoint, header, raw_email) ==
    LET auth == IF endpoint \in ProtectedEndpoints THEN AuthRequired(accounts, header)
                ELSE [status |-> 200, current_user |-> NoId]
        email == NormalizeEmail(raw_email)
    IN  IF auth.status # 200 THEN [status |-> auth.status, user_id |-> NoId]
        ELSE IF endpoint \in OpenEndpoints /\ email = ""
        THEN [status |-> 400, user_id |-> NoId]
        ELSE IF ResolveUserId(accounts, auth.current_user, email) = NoId
        THEN [status |-> IF endpoint \in OpenEndpoints THEN 404 ELSE 403, user_id |-> NoId]
        ELSE [status |-> 200,
              user_id |-> ResolveUserId(accounts, auth.current_user, email)]

\* what the model keeps of a request: caller is the user whose credentials
\* the request carries (NoId without valid credentials)
ResolveCall(endpoint, caller, status, user_id, wrote) ==
    [op |-> "resolve", endpoint |-> endpoint, caller |-> caller, status |-> status,
     user_id |-> user_id, wrote |-> wrote]

\* a GET of an endpoint: the rows of the resolved user are read
GetFor ==
    /\ \E endpoint \in (ProtectedEndpoints \cup OpenEndpoints)
                          \ {"savings_goal_contribution"} :
       \E header \in Headers :
       \E raw_email \in TargetEmails :
       \E res \in { ResolveFor(users, endpoint, header, raw_email) } :
          last_call' = ResolveCall(endpoint,
                                   AuthenticateUser(users, header.email, header.password),
                                   res.status, res.user_id, FALSE)
    /\ UNCHANGED <<procVars, now, tz, currency_rates, cache_file, last_store, notifyVars,
                   goalVars, txnVars>>

\* POST /budgets with a limit in PLN: a budget row of the resolved user
PostBudget ==
    /\ Len(budgets) < MaxBudgets
    /\ \E header \in Headers :
       \E raw_email \in TargetEmails :
       \E res \in { ResolveFor(users, "budgets", header, raw_email) } :
          /\ last_call' = ResolveCall("budgets",
                                      AuthenticateUser(users, header.email, header.password),
                                      res.status, res.user_id, res.user_id # NoId)
          /\ budgets' = IF res.user_id = NoId THEN budgets
                        ELSE Append(budgets, [user_id |-> res.user_id,
                                              limit_amount |-> R(1000),
                                              last_notified_at |-> NoStamp])
    /\ UNCHANGED <<procVars, now, tz, currency_rates, cache_file, last_store, notif_log,
                   last_notify, last_budgets, goalVars, txnVars>>

InitAuth ==
    /\ now = 0
    /\ tz = 0
    /\ currency_rates = EmptyTable
    /\ cache_file = AbsentCache
    /\ last_store = NoStore
    /\ last_call = NoCall
    /\ budgets = <<>>
    /\ notif_log = <<>>
    /\ last_notify = NoNotify
    /\ last_budgets = <<>>
    /\ savings_goals = <<>>
    /\ contributions = <<>>
    /\ last_goal_op = NoGoalOp
    /\ users = <<Account("a@x", "user", "pa"), Account("b@x", "user", "pb"),
                 Account("admin@x", "admin", "pc")>>
    /\ transactions = <<>>
    /\ recurring = <<>>
    /\ last_txn_op = NoTxnOp
    /\ store_txn = <<>>
    /\ requests = <<>>

NextAuth ==
    \/ GetFor
    \/ PostBudget

SpecAuth == InitAuth /\ [][NextAuth]_vars

----------------------------------------------------------------------------
(* Password reset: /forgot-password/verify and /forgot-password/reset *)

\* In this specification now counts minutes (datetime.utcnow()).
MaxResetTime == 16
MaxTokens == 2

\* RESET_TOKEN_TTL = timedelta(minutes=15)
RESET_TOKEN_TTL == 15

\* reset_token NULL, and a request without a token
NoToken == 0

\* a token no verify has issued
ForgedToken == 9

\* is_strong_password on the passwords of the model
IsStrongPassword(password) == password \in {"Str0ng!pw", "0ther!Pw"}

\* a users row with a security question and no reset pending
ResetAccount(email, password, question_key, answer) ==
    [email |-> email, role |-> "user", password_hash |-> HashPassword(password),
     default_currency |-> "PLN", security_question_key |-> question_key,
     security_answer_hash |-> HashPassword(answer),
     reset_token |-> NoToken, reset_token_expires_at |-> NoStamp]

\* forgot_password_verify at minute t; token is what generate_reset_token
\* returns
ForgotPasswordVerify(accounts, t, email, question_key, answer, token) ==
    LET user == GetUserByEmail(accounts, email)
        rejected(status) == [status |-> status, accounts |-> accounts, token |-> NoToken]
    IN  IF email = "" THEN rejected(400)
        ELSE IF question_key \notin {"pet", "city"} THEN rejected(400)
        ELSE IF answer = "" THEN rejected(400)
        ELSE IF user = NoId THEN rejected(404)
        ELSE IF accounts[user].security_question_key = "" THEN rejected(404)
        ELSE IF accounts[user].security_question_key # question_key THEN rejected(400)
        ELSE IF ~CheckPassword(answer, accounts[user].security_answer_hash)
        THEN rejected(400)
        ELSE [status |-> 200,
              accounts |-> [accounts EXCEPT
                               ![user].reset_token = token,
                               ![user].reset_token_expires_at = Stamp(t + RESET_TOKEN_TTL)],
              token |-> token]

\* forgot_password_reset that leaves the token in the row
ForgotPasswordReset_KeepToken(accounts, t, email, reset_token, new_password, confirm_password) ==
    LET user == GetUserByEmail(accounts, email)
        rejected == [status |-> 400, accounts |-> accounts]
    IN  IF email = "" \/ reset_token = NoToken \/ new_password # confirm_password
           \/ ~IsStrongPassword(new_password) \/ user = NoId
        THEN rejected
        ELSE IF accounts[user].reset_token # reset_token
                \/ accounts[user].reset_token_expires_at.k # "iso"
                \/ accounts[user].reset_token_expires_at.t < t
        THEN rejected
        ELSE [status |-> 200,
              accounts |-> [accounts EXCEPT
                               ![user].password_hash = HashPassword(new_password)]]

\* forgot_password_reset at minute t
ForgotPasswordReset(accounts, t, email, reset_token, new_password, confirm_password) ==
    LET user == GetUserByEmail(accounts, email)
        rejected == [status |-> 400, accounts |-> accounts]
    IN  IF email = "" THEN rejected
        ELSE IF reset_token = NoToken THEN rejected
        ELSE IF new_password # confirm_password THEN rejected
        ELSE IF ~IsStrongPassword(new_password) THEN rejected
        ELSE IF user = NoId THEN rejected
        ELSE IF accounts[user].reset_token = NoToken THEN rejected
        ELSE IF accounts[user].reset_token # reset_token THEN rejected
        ELSE IF accounts[user].reset_token_expires_at.k = "none" THEN rejected
        ELSE IF (IF accounts[user].reset_token_expires_at.k = "iso"
                 THEN accounts[user].reset_token_expires_at.t
                 ELSE t - 1) < t
        THEN rejected
        ELSE [status |-> 200,
              accounts |-> [accounts EXCEPT
                               ![user].password_hash = HashPassword(new_password),
                               ![user].reset_token = NoToken,
                               ![user].reset_token_expires_at = NoStamp]]

\* requests keeps, in order, the verifies that issued a token, with their
\* minute, and the resets that were accepted
ResetEvent(op, token, t) == [op |-> op, token |-> token, t |-> t]

Issued(log) == {i \in 1..Len(log) : log[i].op = "verify"}

\* POST /forgot-password/verify
VerifyRequest ==
    /\ Cardinality(Issued(requests)) < MaxTokens
    /\ \E email \in {"a@x", "nobody@x"} :
       \E question_key \in {"pet", "city"} :
       \E answer \in {"rex", "bad"} :
       \E v \in { ForgotPasswordVerify(users, now, email, question_key, answer,
                                       Cardinality(Issued(requests)) + 1) } :
          /\ users' = v.accounts
          /\ requests' = IF v.status = 200
                         THEN Append(requests, ResetEvent("verify", v.token, now))
                         ELSE requests
          /\ last_call' = [op |-> "verify", status |-> v.status, email |-> email,
                           token |-> v.token]
    /\ UNCHANGED <<store_txn, now, tz, currency_rates, cache_file, last_store, notifyVars,
                   goalVars, transactions, recurring, last_txn_op>>

\* POST /forgot-password/reset
ResetRequest ==
    /\ \E email \in {"a@x", "nobody@x"} :
       \E reset_token \in (0..MaxTokens) \cup {ForgedToken} :
       \E passwords \in {<<"Str0ng!pw", "Str0ng!pw">>, <<"Str0ng!pw", "weak">>,
                         <<"weak", "weak">>} :
       \E new_password \in {passwords[1]} :
       \E v \in { ForgotPasswordReset(users, now, email, reset_token, new_password,
                                      passwords[2]) } :
          /\ users' = v.accounts
          /\ requests' = IF v.status = 200
                         THEN Append(requests, ResetEvent("reset", reset_token, NoDate))
                         ELSE requests
          /\ last_call' = [op |-> "reset", status |-> v.status, email |-> email,
                           token |-> reset_token, new_password |-> new_password]
    /\ UNCHANGED <<store_txn, now, tz, currency_rates, cache_file, last_store, notifyVars,
                   goalVars, transactions, recurring, last_txn_op>>

\* the clock moves by 7 or 8 minutes: minute 15 and minute 16 after a verify
\* are both reached
TickReset ==
    /\ \E d \in {7, 8} : now + d <= MaxResetTime /\ now' = now + d
    /\ last_call' = NoCall
    /\ UNCHANGED <<procVars, tz, currency_rates, cache_file, last_store, notifyVars,
                   goalVars, txnVars>>

InitReset ==
    /\ now = 0
    /\ tz = 0
    /\ currency_rates = EmptyTable
    /\ cache_file = AbsentCache
    /\ last_store = NoStore
    /\ last_call = NoCall
    /\ budgets = <<>>
    /\ notif_log = <<>>
    /\ last_notify = NoNotify
    /\ last_budgets = <<>>
    /\ savings_goals = <<>>
    /\ contributions = <<>>
    /\ last_goal_op = NoGoalOp
    /\ users = <<ResetAccount("a@x", "0ther!Pw", "pet", "rex")>>
    /\ transactions = <<>>
    /\ recurring = <<>>
    /\ last_txn_op = NoTxnOp
    /\ store_txn = <<>>
    /\ requests = <<>>

NextReset ==
    \/ TickReset
    \/ VerifyRequest
    \/ ResetRequest

SpecReset == InitReset /\ [][NextReset]_vars

----------------------------------------------------------------------------
(* Deleting a budget or a savings goal that other rows refer to *)

\* the blank row a deleted budget leaves (budgets.id is AUTOINCREMENT)
DeletedBudget == [exists |-> FALSE]

BudgetExists(rows, budget_id) ==
    budget_id \in DOMAIN rows /\ rows[budget_id] # DeletedBudget

\* POST /transactions: an expense of 100 PLN on a budget of the user, dated
\* today; a budget_id without a row is answered 404
PostBudgetExpense ==
    /\ Len(transactions) < MaxTransactions
    /\ \E budget_id \in DOMAIN budgets :
          IF ~BudgetExists(budgets, budget_id)
          THEN /\ last_txn_op' = TxnOp("post_refused", {}, <<>>)
               /\ UNCHANGED transactions
          ELSE /\ transactions' = Append(transactions,
                                         Transaction(R(100), "PLN", Num(R(100)), NoId,
                                                     budget_id, Today(now, tz)))
               /\ last_txn_op' = TxnOp("post", {Len(transactions) + 1}, <<>>)
    /\ last_call' = NoCall
    /\ UNCHANGED <<procVars, now, tz, currency_rates, cache_file, last_store, notifyVars,
                   goalVars, users, recurring>>

\* DELETE /budgets/<id>: DELETE FROM budgets on a connection that never
\* enables foreign_keys, so no transaction row is touched
DeleteBudget ==
    /\ \E budget_id \in DOMAIN budgets :
          IF ~BudgetExists(budgets, budget_id)
          THEN /\ last_txn_op' = TxnOp("budget_delete_refused", {}, <<>>)
               /\ UNCHANGED budgets
          ELSE /\ budgets' = [budgets EXCEPT ![budget_id] = DeletedBudget]
               /\ last_txn_op' = TxnOp("budget_delete", {}, <<>>)
    /\ last_call' = NoCall
    /\ UNCHANGED <<procVars, now, tz, currency_rates, cache_file, last_store, notif_log,
                   last_notify, last_budgets, goalVars, users, transactions, recurring>>

InitDelete ==
    /\ now = 0
    /\ tz = 0
    /\ currency_rates = EmptyTable
    /\ cache_file = JsonCache(Stamp(0), <<<<"EUR", Num(R(2))>>>>)
    /\ last_store = NoStore
    /\ last_call = NoCall
    /\ budgets = <<Budget(R(1000)), Budget(R(200))>>
    /\ notif_log = <<>>
    /\ last_notify = NoNotify
    /\ last_budgets = <<>>
    /\ savings_goals = <<>>
    /\ contributions = <<>>
    /\ last_goal_op = NoGoalOp
    /\ users = <<User("PLN")>>
    /\ transactions = <<>>
    /\ recurring = <<>>
    /\ last_txn_op = NoTxnOp
    /\ store_txn = <<>>
    /\ requests = <<>>

NextDelete ==
    \/ PostBudgetExpense
    \/ DeleteBudget
    \/ CreateGoal
    \/ InsertContribution
    \/ DeleteGoal

SpecDelete == InitDelete /\ [][NextDelete]_vars

----------------------------------------------------------------------------
(* Properties of the rate subsystem *)

\* entry i of a rate dict is one _store_currency_rates keeps
Kept(rates, i) == rates[i][1] # NoCode /\ rates[i][2].k = "num"

\* the table holds every rate of the dict: for each code, the value of the
\* last kept entry with that code (upper-cased)
HoldsRates(table, rates) ==
    \A i \in 1..Len(rates) :
        (Kept(rates, i)
         /\ ~\E j \in (i + 1)..Len(rates) :
                Kept(rates, j) /\ Upper(rates[j][1]) = Upper(rates[i][1]))
        => /\ Upper(rates[i][1]) \in DOMAIN table
           /\ table[Upper(rates[i][1])].rate = rates[i][2].v

\* C2 (as claimed): after a call of ensure_currency_rates that wrote the rate
\* table, the table has a row for the base currency PLN and its rate is 1.0,
\* whatever the source or the cache contained.
C2_BasePinned ==
    (last_call.op = "ensure" /\ last_call.stored)
    => /\ BASE_CURRENCY \in DOMAIN currency_rates
       /\ currency_rates[BASE_CURRENCY].rate = ROne

\* C3 (as claimed): when the live fetch failed and a cache snapshot exists on
\* disk, for force_refresh true as well as false, the rate table holds the
\* snapshot's rates when ensure_currency_rates returns.
C3_FallbackOnFailure ==
    (/\ last_call.op = "ensure"
     /\ last_call.fetch = "failed"
     /\ cache_file.state = "json"
     /\ cache_file.rates_is_dict)
    => /\ ~last_call.raised
       /\ currency_rates # EmptyTable
       /\ HoldsRates(currency_rates, cache_file.rates)

\* C4 (as claimed): ensure_currency_rates never raises to its caller, for
\* every outcome of the rate source and every state of the cache file.
C4_NeverRaises == last_call.op = "ensure" => ~last_call.raised

\* a readable snapshot at most CURRENCY_CACHE_TTL hours old at time t
ReadableFresh(cache, t) ==
    /\ cache.state = "json"
    /\ cache.rates_is_dict
    /\ cache.fetched_at.k = "iso"
    /\ t - cache.fetched_at.t >= 0
    /\ t - cache.fetched_at.t <= 24

\* C5: an unforced ensure_currency_rates that finds a readable snapshot at
\* most 24 hours old (24 included) does not contact the rate source, pushes
\* the cached rates into the table and returns; a forced call attempts the
\* live fetch whatever the cache holds.
C5_FreshCacheSkipsFetch ==
    [][ last_call'.op = "ensure"
        => /\ (~last_call'.force /\ ReadableFresh(cache_file, now))
                => /\ last_call'.fetch = "skipped"
                   /\ ~last_call'.raised
                   /\ last_call'.stored
                   /\ HoldsRates(currency_rates', cache_file.rates)
                   /\ cache_file' = cache_file
           /\ last_call'.force => last_call'.fetch # "skipped" ]_vars

\* C5 witness: an unforced call skipped the fetch on a snapshot exactly 24
\* hours old.
C5_Witness ==
    /\ last_call.op = "ensure"
    /\ ~last_call.force
    /\ last_call.fetch = "skipped"
    /\ cache_file.fetched_at.k = "iso"
    /\ now - cache_file.fetched_at.t = 24
    /\ HoldsRates(currency_rates, cache_file.rates)

\* C6: after a write by _store_currency_rates the table is the snapshot of
\* that one call: its codes are exactly PLN plus the (upper-cased) codes of
\* the kept entries of the rate set, every row carries the fetched_at of the
\* call, every rate is the one of the rate set, and no other row remains.
C6_SingleSnapshot ==
    last_store.done
    => /\ DOMAIN currency_rates =
            {BASE_CURRENCY} \cup
            {Upper(last_store.rates[i][1]) :
                i \in {j \in 1..Len(last_store.rates) : Kept(last_store.rates, j)}}
       /\ \A c \in DOMAIN currency_rates :
            currency_rates[c].fetched_at = last_store.fetched_at
       /\ HoldsRates(currency_rates, last_store.rates)

\* C6 witness: a second snapshot has replaced an earlier one with other codes.
C6_Witness ==
    /\ last_store.done
    /\ last_store.fetched_at = Stamp(CURRENCY_CACHE_TTL)
    /\ DOMAIN currency_rates = {"PLN", "EUR", "USD"}

----------------------------------------------------------------------------
(* Properties of budget notifications *)

\* C1 (as claimed): over any sequence of maybe_send_budget_notification
\* calls, at most one call made on the same calendar day (date.today())
\* notifies for a budget: the log never holds two notifications of one
\* budget with the same day.
C1_OncePerDay ==
    \A i, j \in 1..Len(notif_log) :
        (i # j /\ notif_log[i].id = notif_log[j].id)
        => notif_log[i].day # notif_log[j].day

\* the threshold test of maybe_send_budget_notification
ThresholdHit(limit_amount, spent) ==
    /\ RLt(RZero, limit_amount)
    /\ RLe(BUDGET_ALERT_THRESHOLD, RDiv(spent, limit_amount)) \/ RLt(limit_amount, spent)

\* C20 (as claimed): when a budget was notified on an earlier calendar day
\* (date.today()) and is at or over the threshold, the first call of
\* maybe_send_budget_notification on the new day notifies and returns True:
\* a call that finds an earlier-day notification and none of the current day
\* is not suppressed.
C20_RolloverRearms ==
    (/\ last_notify.op = "notify"
     /\ ThresholdHit(budgets[last_notify.id].limit_amount, last_notify.spent)
     /\ \E i \in 1..Len(notif_log) :
           notif_log[i].id = last_notify.id /\ notif_log[i].day < Today(now, tz))
    => \/ last_notify.returned
       \/ \E i \in 1..Len(notif_log) :
             notif_log[i].id = last_notify.id /\ notif_log[i].day = Today(now, tz)

\* C21: maybe_send_budget_notification notifies only if limit_amount > 0 and
\* (spent / limit >= 0.9 or spent > limit).  When limit_amount <= 0 or the
\* utilization is below 0.9 it returns False, logs nothing and leaves the
\* budgets table as it was; when the test passes and the stamp does not
\* carry today's date it logs one notification, stamps the budget and
\* returns True (limit 1000, spent 950 included).
C21_ThresholdGate ==
    [][ last_notify'.op = "notify"
        => LET id == last_notify'.id
               hit == ThresholdHit(budgets[id].limit_amount, last_notify'.spent)
               stamped == /\ budgets[id].last_notified_at.k = "iso"
                          /\ StampDate(budgets[id].last_notified_at) = Today(now, tz)
           IN  /\ last_notify'.returned => hit
               /\ ~hit => (/\ ~last_notify'.returned
                           /\ notif_log' = notif_log
                           /\ budgets' = budgets)
               /\ (hit /\ ~stamped)
                  => (/\ last_notify'.returned
                      /\ notif_log' = Append(notif_log, [id |-> id, day |-> Today(now, tz)])
                      /\ budgets'[id].last_notified_at = Stamp(now)) ]_vars

C21_Witness ==
    /\ last_notify.op = "notify"
    /\ budgets[last_notify.id].limit_amount = R(1000)
    /\ last_notify.spent = R(950)
    /\ last_notify.returned
    /\ budgets[last_notify.id].last_notified_at = Stamp(now)
    /\ \E i \in 1..Len(notif_log) : notif_log[i].id = last_notify.id

----------------------------------------------------------------------------
(* Properties of savings goals *)

RECURSIVE ContributedFrom(_, _, _)
ContributedFrom(rows, goal_id, i) ==
    IF i > Len(rows) THEN RZero
    ELSE RAdd(IF rows[i].exists /\ rows[i].goal_id = goal_id THEN rows[i].amount ELSE RZero,
              ContributedFrom(rows, goal_id, i + 1))

\* SUM(amount) over the contributions of a goal
Contributed(goal_id) == ContributedFrom(contributions, goal_id, 1)

\* C7 (as claimed): in every reachable state the stored current_amount of
\* every savings goal equals the sum of the amounts of its contributions.
C7_CurrentIsSum ==
    \A goal_id \in DOMAIN savings_goals :
        savings_goals[goal_id].exists
        => savings_goals[goal_id].current_amount = Contributed(goal_id)

\* C8: the running total follows the contribution ledger.  An insert of A
\* takes current_amount from C to C + A, an update from O to N takes it to
\* C + (N - O), a delete of A takes it to max(C - A, 0), never negative; no
\* other goal changes.
C8_LedgerSteps ==
    [][ LET op == last_goal_op'
            row == IF op.op = "contribution_insert"
                   THEN contributions'[op.id] ELSE contributions[op.id]
            g == row.goal_id
            C == savings_goals[g].current_amount
            after == savings_goals'[g].current_amount
        IN  op.op \in {"contribution_insert", "contribution_update", "contribution_delete"}
            => /\ DOMAIN savings_goals' = DOMAIN savings_goals
               /\ \A other \in DOMAIN savings_goals :
                    other # g => savings_goals'[other] = savings_goals[other]
               /\ savings_goals[g].exists
                    => /\ op.op = "contribution_insert"
                            => after = RAdd(C, row.amount)
                       /\ op.op = "contribution_update"
                            => after = RAdd(C, RSub(contributions'[op.id].amount, row.amount))
                       /\ op.op = "contribution_delete"
                            => /\ after = (IF RLe(row.amount, C)
                                           THEN RSub(C, row.amount) ELSE RZero)
                               /\ RLe(RZero, after) ]_vars

\* C8 witness: a contribution larger than the running total was deleted and
\* the total stopped at zero.
C8_Witness ==
    /\ last_goal_op.op = "contribution_delete"
    /\ last_goal_op.floored
    /\ LET id == last_goal_op.id
       IN  /\ ~contributions[id].exists
           /\ \E goal_id \in DOMAIN savings_goals :
                 /\ savings_goals[goal_id].exists
                 /\ savings_goals[goal_id].current_amount = RZero

----------------------------------------------------------------------------
(* Properties of transactions *)

\* get_exchange_rate read off a rate table: the rate to PLN of a currency
RateToBase(table, currency) ==
    IF currency = NoCode \/ Upper(currency) = "PLN" THEN ROne
    ELSE IF Upper(currency) \in DOMAIN table THEN table[Upper(currency)].rate
    ELSE ROne

\* C9 (as claimed): every read path that needs the base-currency amount of a
\* transaction (transaction list, budget utilization, export) takes the
\* stored converted_amount when it is not NULL; it converts from amount and
\* currency only when converted_amount is NULL.
C9_StoredAmountUsed ==
    \A id \in DOMAIN last_txn_op.used :
        transactions[id].converted_amount.k # "none"
        => last_txn_op.used[id] = transactions[id].converted_amount.v

\* C10 (as claimed): every row a write path persists (POST /transactions,
\* PUT /transactions/<id>, a materialized recurrence) carries a
\* converted_amount equal to amount * rate-to-PLN of its currency under the
\* rates in force at the write, whatever the user's preferred currency.
C10_ConvertedIsBaseValue ==
    \A id \in last_txn_op.written :
        transactions[id].converted_amount =
            Num(RMul(transactions[id].amount,
                     RateToBase(currency_rates, transactions[id].currency)))

----------------------------------------------------------------------------
(* Properties of budget utilization *)

\* the transactions dated inside the window of budget b on the current day
InWindowOf(b) ==
    LET today == Today(now, tz)
        lo == IF budgets[b].start_date.k = "iso" THEN budgets[b].start_date.d
              ELSE MonthStart(today)
        hi == IF budgets[b].end_date.k = "iso" THEN budgets[b].end_date.d
              ELSE MonthEnd(today)
    IN  {i \in DOMAIN transactions :
            lo <= transactions[i].occurred_on /\ transactions[i].occurred_on <= hi}

\* the sum of the base amounts the request took for the transactions of S
RECURSIVE SumUsed(_)
SumUsed(S) ==
    IF S = {} THEN RZero
    ELSE LET i == CHOOSE x \in S : TRUE
         IN  RAdd(last_txn_op.used[i], SumUsed(S \ {i}))

\* the transactions GET /budgets is to count for budget b
CountedFor(b) ==
    LET matched == {i \in InWindowOf(b) : transactions[i].budget_id = b}
        fallback == {i \in InWindowOf(b) :
                        /\ transactions[i].budget_id = NoId
                        /\ transactions[i].category_id = budgets[b].category_id}
    IN  IF SumUsed(matched) = RZero /\ budgets[b].category_id # NoId
        THEN fallback ELSE matched

\* C11: in the response of GET /budgets, spent amount and transaction count
\* of every budget are those of the in-window expenses whose budget_id is
\* the budget's id, unless their sum is exactly zero and the budget has a
\* category: then they are those of the in-window expenses without a
\* budget_id whose category is the budget's.  An expense of another budget
\* is never counted.
C11_BudgetTally ==
    (last_txn_op.op = "get_budgets" /\ last_budgets # <<>>)
    => /\ DOMAIN last_budgets = DOMAIN budgets
       /\ \A b \in DOMAIN budgets :
            /\ last_budgets[b].spent_pln = SumUsed(CountedFor(b))
            /\ last_budgets[b].transaction_count = Cardinality(CountedFor(b))

\* C11 witness: budget 1 has an in-window expense of its own of amount 0, and
\* the response counts the one expense of its category instead, in a window
\* given by the budget's own dates.
C11_Witness ==
    /\ last_txn_op.op = "get_budgets"
    /\ last_budgets # <<>>
    /\ budgets[1].start_date.k = "iso"
    /\ \E i \in InWindowOf(1) : transactions[i].budget_id = 1
    /\ last_budgets[1].spent_pln = R(100)
    /\ last_budgets[1].transaction_count = 1
    /\ \E i \in InWindowOf(1) : transactions[i].budget_id = NoId

----------------------------------------------------------------------------
(* Properties of conversion *)

\* the rate a lookup reads off the table for an upper-case code
StoredRate(code) ==
    IF code = "PLN" THEN ROne
    ELSE IF code \in DOMAIN currency_rates THEN currency_rates[code].rate
    ELSE ROne

\* source / target as convert_amount computes them
ArgCode(c) == Upper(IF c = NoCode THEN "PLN" ELSE c)

\* C12 (as claimed): get_exchange_rate(c) for a non-base currency c without a
\* row in the rate table (the table may be empty) returns 1.0 and raises no
\* error.
C12_UnknownFailsOpen ==
    (/\ last_call.op = "get_exchange_rate"
     /\ last_call.currency # NoCode
     /\ Upper(last_call.currency) # "PLN"
     /\ Upper(last_call.currency) \notin DOMAIN currency_rates)
    => (~last_call.raised /\ last_call.val = ROne)

\* C13 (as claimed): when the two currency arguments are identical after
\* normalization (trim, upper case, empty meaning the base currency),
\* convert_amount returns the amount unchanged, looks up no rate and triggers
\* no refresh.
C13_IdentityConversion ==
    (/\ last_call.op = "convert_amount"
     /\ NormalizeCurrency(last_call.source, BASE_CURRENCY)
           = NormalizeCurrency(last_call.target, BASE_CURRENCY))
    => (/\ ~last_call.raised
        /\ last_call.val = last_call.amount
        /\ last_call.calls = <<>>)

\* C14: for different source and target with stored rates rs and rt, rt not
\* zero, convert_amount(a, source, target) is a * rs when the target is PLN
\* and a * rs / rt otherwise; with {PLN: 1.0, EUR: 4.30, USD: 4.00},
\* convert_amount(100, EUR, USD) is 107.5.
C14_ConversionFormula ==
    (/\ last_call.op = "convert_amount"
     /\ ~last_call.raised
     /\ ArgCode(last_call.source) # ArgCode(last_call.target)
     /\ ArgCode(last_call.source) \in DOMAIN currency_rates \cup {"PLN"}
     /\ ArgCode(last_call.target) \in DOMAIN currency_rates \cup {"PLN"}
     /\ StoredRate(ArgCode(last_call.target)) # RZero)
    => LET a == last_call.amount
           rs == StoredRate(ArgCode(last_call.source))
           rt == StoredRate(ArgCode(last_call.target))
       IN  /\ last_call.val = IF ArgCode(last_call.target) = "PLN" THEN RMul(a, rs)
                              ELSE RDiv(RMul(a, rs), rt)
           /\ (/\ a = R(100)
               /\ ArgCode(last_call.source) = "EUR" /\ rs = Rat(43, 10)
               /\ ArgCode(last_call.target) = "USD" /\ rt = R(4))
              => last_call.val = Rat(215, 2)

C14_Witness ==
    /\ last_call.op = "convert_amount"
    /\ ~last_call.raised
    /\ last_call.amount = R(100)
    /\ last_call.source = "EUR" /\ last_call.target = "USD"
    /\ DOMAIN currency_rates = {"PLN", "EUR", "USD"}
    /\ currency_rates["EUR"].rate = Rat(43, 10)
    /\ currency_rates["USD"].rate = R(4)
    /\ Len(last_call.calls) = 2
    /\ last_call.val = Rat(215, 2)

\* C15: for currencies X, Y whose rates are not zero, with the rate table the
\* same for both calls, convert_amount(convert_amount(A, X, Y), Y, X) is A.
\* Amounts are exact rationals, so the rounding tolerance is zero.
C15_RoundTrip ==
    (/\ last_call.op = "round_trip"
     /\ ~last_call.raised
     /\ last_call.table1 = currency_rates
     /\ StoredRate(ArgCode(last_call.x)) # RZero
     /\ StoredRate(ArgCode(last_call.y)) # RZero)
    => last_call.val = last_call.amount

C15_Witness ==
    /\ last_call.op = "round_trip"
    /\ ~last_call.raised
    /\ last_call.table1 = currency_rates
    /\ last_call.x = "EUR" /\ last_call.y = "USD"
    /\ {"EUR", "USD"} \subseteq DOMAIN currency_rates
    /\ currency_rates["EUR"].rate # currency_rates["USD"].rate
    /\ currency_rates["EUR"].rate # RZero /\ currency_rates["USD"].rate # RZero
    /\ last_call.val = last_call.amount

\* C16: when the fetch fails and there is no cache file, ensure_currency_rates
\* returns without raising and the rate table keeps its rows, rates and
\* fetched_at; on an empty table get_exchange_rate('EUR') then returns 1.0.
C16_NoCacheFetchFails ==
    [][ /\ (/\ last_call'.op = "ensure"
            /\ last_call'.fetch = "failed"
            /\ cache_file.state = "absent")
           => (~last_call'.raised /\ currency_rates' = currency_rates)
        /\ (/\ last_call'.op = "get_exchange_rate"
            /\ last_call'.call.op = "ensure"
            /\ last_call'.call.fetch = "failed"
            /\ cache_file.state = "absent")
           => (/\ ~last_call'.raised
               /\ currency_rates' = currency_rates
               /\ (currency_rates = EmptyTable /\ last_call'.currency = "EUR")
                  => last_call'.val = ROne) ]_vars

C16_Witness ==
    /\ last_call.op = "get_exchange_rate"
    /\ last_call.currency = "EUR"
    /\ last_call.call.op = "ensure"
    /\ last_call.call.fetch = "failed"
    /\ ~last_call.call.stored
    /\ cache_file.state = "absent"
    /\ currency_rates = EmptyTable
    /\ last_call.val = ROne

\* C23: when the stored rate of the target is exactly 0 and source and
\* target differ, convert_amount returns amount * rate(source) and does not
\* divide; whatever the table, a division is executed only by a rate that
\* is not zero.
C23_ZeroRateGuard ==
    (last_call.op = "convert_amount" /\ ~last_call.raised)
    => /\ (/\ ArgCode(last_call.source) # ArgCode(last_call.target)
           /\ StoredRate(ArgCode(last_call.target)) = RZero)
          => (/\ last_call.val = RMul(last_call.amount,
                                      StoredRate(ArgCode(last_call.source)))
              /\ ~last_call.divided)
       /\ last_call.divided => StoredRate(ArgCode(last_call.target)) # RZero

C23_Witness ==
    /\ last_call.op = "convert_amount"
    /\ ~last_call.raised
    /\ last_call.source = "EUR" /\ last_call.target = "CHF"
    /\ "CHF" \in DOMAIN currency_rates /\ currency_rates["CHF"].rate = RZero
    /\ "EUR" \in DOMAIN currency_rates /\ currency_rates["EUR"].rate = Rat(43, 10)
    /\ last_call.val = R(430)
    /\ ~last_call.divided

\* C24 (as claimed): over any sequence of ensure_currency_rates calls the
\* fetched_at of the rate table after a call is never earlier than before
\* the call.
C24_SnapshotNeverOlder ==
    [][ (/\ last_call'.op = "ensure"
         /\ "PLN" \in DOMAIN currency_rates
         /\ "PLN" \in DOMAIN currency_rates'
         /\ currency_rates["PLN"].fetched_at.k = "iso"
         /\ currency_rates'["PLN"].fetched_at.k = "iso")
        => currency_rates'["PLN"].fetched_at.t >= currency_rates["PLN"].fetched_at.t ]_vars

----------------------------------------------------------------------------
(* Properties of the cache file *)

\* a cache file that is absent, unreadable, not valid JSON, or whose
\* fetched_at cannot be parsed
BrokenCache(cache) ==
    \/ cache.state \in {"absent", "corrupt", "undecodable"}
    \/ cache.state = "json" /\ cache.fetched_at.k \in {"junk", "nonstr"}

\* C22 (as claimed): after a successful live fetch the cache file describes
\* the same fetch as the rate table: it carries that fetch's fetched_at, its
\* codes are the codes of the table other than PLN, with the same rates, PLN
\* is 1.0 in the table, and no entry without a code or without a numeric
\* rate is in either.
C22_CacheMatchesTable ==
    [][ (last_call'.op = "ensure" /\ last_call'.fetch = "ok" /\ ~last_call'.raised)
        => /\ cache_file'.state = "json"
           /\ cache_file'.fetched_at = Stamp(now)
           /\ \A c \in DOMAIN currency_rates' :
                 currency_rates'[c].fetched_at = Stamp(now)
           /\ DOMAIN currency_rates' = DictKeys(cache_file'.rates) \cup {"PLN"}
           /\ currency_rates'["PLN"].rate = ROne
           /\ \A i \in 1..Len(cache_file'.rates) :
                 LET code == cache_file'.rates[i][1]
                     value == cache_file'.rates[i][2]
                 IN  /\ code # NoCode
                     /\ value.k = "num"
                     /\ code # "PLN" => currency_rates'[code].rate = value.v ]_vars

\* C17 (as claimed): a call of ensure_currency_rates that finds such a cache
\* file behaves as with no cache: the file is not taken as fresh (the fetch
\* is attempted), and when the fetch fails nothing is pushed, the table is
\* left as it was, and the call does not raise.
C17_BrokenCacheIsNoCache ==
    [][ (last_call'.op = "ensure" /\ BrokenCache(cache_file))
        => /\ last_call'.fetch # "skipped"
           /\ last_call'.fetch = "failed"
              => (/\ ~last_call'.raised
                  /\ ~last_call'.stored
                  /\ currency_rates' = currency_rates) ]_vars

----------------------------------------------------------------------------
(* Properties of concurrent access *)

\* C18: a reader of the rate table running while _store_currency_rates is
\* between its DELETE and its commit sees the complete previous snapshot or
\* the complete new one, never an empty or partly filled table; outside a
\* store it sees the snapshot of the last store.
C18_ReaderSeesSnapshot ==
    last_call.op = "read"
    => /\ last_call.table # EmptyTable
       /\ \/ last_call.table = last_call.previous
          \/ last_call.during /\ last_call.table = last_call.next

C18_Witness ==
    /\ last_call.op = "read"
    /\ last_call.during
    /\ last_call.written # EmptyTable
    /\ last_call.written # last_call.next
    /\ last_call.previous # last_call.next
    /\ last_call.table = last_call.previous

\* C19 (as claimed): with GET /budgets requests interleaved, each selecting
\* the budget rows and then calling maybe_send_budget_notification, a budget
\* gets at most one notification on a calendar day.
C19_OncePerDayConcurrent ==
    \A b \in DOMAIN budgets :
        \A d \in {notif_log[i].day : i \in 1..Len(notif_log)} :
            Cardinality({i \in 1..Len(notif_log) :
                            notif_log[i].id = b /\ notif_log[i].day = d}) <= 1

\* C25 (as claimed): the two rates one convert_amount call between two
\* non-base currencies uses are read from the same snapshot of the rate
\* table: the table the target lookup reads is the table the source lookup
\* read.
C25_SameSnapshot ==
    (last_call.op = "convert_lookups" /\ ~last_call.raised)
    => last_call.source_table = last_call.target_table

----------------------------------------------------------------------------
(* Properties of recurring transactions *)

\* the occurrence dates of a recurrence that are due on the day today: its
\* next_occurrence and every period after it, up to today and up to end_date
OccurrenceDates(rec, today) ==
    { d \in rec.next_occurrence..today :
        /\ (d - rec.next_occurrence) % (IF rec.frequency = "daily" THEN 1 ELSE 7) = 0
        /\ (rec.end_date = NoDate \/ d <= rec.end_date) }

\* the rows of a transaction table that belong to the occurrence of rec on day d
OccurrenceRows(rows, among, rec, d) ==
    { k \in among : rows[k].category_id = rec.category_id /\ rows[k].occurred_on = d }

\* C26: process_recurring_transactions called one call at a time.  A call
\* that returns has written exactly one transaction for every occurrence date
\* that was due and no other row, no occurrence has two transactions, every
\* next_occurrence is past today or past end_date, and a call that follows a
\* returned call on the same day changes neither table.
C26_SequentialIdempotent ==
    [][ (now' = now /\ last_txn_op'.op = "process" /\ ~last_txn_op'.raised)
        => LET today == Today(now, tz)
               written == last_txn_op'.written
           IN  /\ \A i \in 1..Len(recurring) :
                    /\ \A d \in OccurrenceDates(recurring[i], today) :
                         Cardinality(OccurrenceRows(transactions', written,
                                                    recurring[i], d)) = 1
                    /\ \/ recurring'[i].next_occurrence > today
                       \/ /\ recurring[i].end_date # NoDate
                          /\ recurring'[i].next_occurrence > recurring[i].end_date
               /\ \A k \in written :
                    \E i \in 1..Len(recurring) :
                        /\ transactions'[k].category_id = recurring[i].category_id
                        /\ transactions'[k].occurred_on
                              \in OccurrenceDates(recurring[i], today)
               /\ \A i \in 1..Len(recurring) :
                    \A d \in 0..today :
                        Cardinality(OccurrenceRows(transactions', 1..Len(transactions'),
                                                   recurring[i], d)) <= 1
               /\ last_txn_op'.repeated
                  => (transactions' = transactions /\ recurring' = recurring) ]_vars

\* a second call on the day of a call that returned, with two occurrences of
\* one recurrence and an ended recurrence in the table
C26_Witness ==
    /\ last_txn_op.op = "process"
    /\ ~last_txn_op.raised
    /\ last_txn_op.repeated
    /\ \E i \in 1..Len(recurring) :
          /\ recurring[i].frequency = "weekly"
          /\ Cardinality({k \in 1..Len(transactions) :
                             transactions[k].category_id = recurring[i].category_id}) = 2
    /\ \E i \in 1..Len(recurring) :
          /\ recurring[i].end_date # NoDate
          /\ recurring[i].next_occurrence > recurring[i].end_date

\* C27 (as claimed): with the process_recurring_transactions calls of several
\* requests of one user interleaved, each selecting the due recurrences and
\* then inserting, no occurrence date of a recurrence has more than one
\* transaction.
C27_OneRowPerOccurrence ==
    \A i \in 1..Len(recurring) :
        \A d \in {transactions[k].occurred_on : k \in 1..Len(transactions)} :
            Cardinality(OccurrenceRows(transactions, 1..Len(transactions),
                                       recurring[i], d)) <= 1

----------------------------------------------------------------------------
(* Properties of authorization *)

\* C28 (as claimed): on every endpoint that resolves its target through
\* resolve_user_id, a request without valid credentials resolves no user, and
\* the resolved user differs from the caller only when the caller is an
\* authenticated admin.
C28_OwnDataOrAdmin ==
    (last_call.op = "resolve" /\ last_call.user_id # NoId)
    => /\ last_call.caller # NoId
       /\ last_call.user_id # last_call.caller => users[last_call.caller].role = "admin"

----------------------------------------------------------------------------
(* Properties of the password reset *)

\* the minute at which a verify issued the token (NoDate: never issued)
IssuedAt(log, token) ==
    IF \E i \in Issued(log) : log[i].token = token
    THEN log[CHOOSE i \in Issued(log) : log[i].token = token].t
    ELSE NoDate

\* the token of the newest verify
NewestToken(log) ==
    IF Issued(log) = {} THEN NoToken
    ELSE log[CHOOSE i \in Issued(log) : \A j \in Issued(log) : j <= i].token

AlreadyUsed(log, token) ==
    \E i \in 1..Len(log) : log[i].op = "reset" /\ log[i].token = token

\* C29: a reset request is accepted only with the token of the newest verify,
\* not used before, at most 15 minutes after that verify; an accepted reset
\* sets the password and clears reset_token and reset_token_expires_at; a
\* rejected one leaves the users row as it was; no token is accepted twice.
C29_TokenSingleUse ==
    [][ last_call'.op = "reset"
        => LET token == last_call'.token
               usable == /\ token # NoToken
                         /\ IssuedAt(requests, token) # NoDate
                         /\ token = NewestToken(requests)
                         /\ ~AlreadyUsed(requests, token)
                         /\ now <= IssuedAt(requests, token) + RESET_TOKEN_TTL
           IN  /\ last_call'.status = 200 => usable
               /\ last_call'.status = 200
                  => /\ users'[1].password_hash = HashPassword(last_call'.new_password)
                     /\ users'[1].reset_token = NoToken
                     /\ users'[1].reset_token_expires_at = NoStamp
               /\ last_call'.status # 200 => users' = users
               /\ ~usable => last_call'.status # 200
               /\ \A t \in 1..MaxTokens :
                    Cardinality({i \in 1..Len(requests') :
                                    requests'[i].op = "reset"
                                    /\ requests'[i].token = t}) <= 1 ]_vars

\* a reset accepted at the fifteenth minute of the second token, after the
\* first token was used
C29_Witness ==
    /\ last_call.op = "reset"
    /\ last_call.status = 200
    /\ last_call.token = 2
    /\ AlreadyUsed(requests, 1)
    /\ now = IssuedAt(requests, 2) + RESET_TOKEN_TTL

----------------------------------------------------------------------------
(* Properties of deletes *)

\* C30 (as claimed): the referential actions of the schema take effect: no
\* transaction carries the id of a deleted budget in budget_id, and no
\* contribution row of a deleted savings goal remains.
C30_ReferentialActions ==
    /\ \A k \in DOMAIN transactions :
          transactions[k].budget_id # NoId
          => BudgetExists(budgets, transactions[k].budget_id)
    /\ \A c \in DOMAIN contributions :
          contributions[c].exists
          => /\ contributions[c].goal_id \in DOMAIN savings_goals
             /\ savings_goals[contributions[c].goal_id].exists

====
